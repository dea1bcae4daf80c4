---------------------------- MODULE Timetable_proofs ----------------------------
(* Proofs about Timetable, for any descriptors, requests, lessons and files:   *)
(* the maps agree with the base, selections are what they were taken for, what *)
(* was accepted is executed once, and sessions are private.                    *)
EXTENDS Timetable, Positions_proofs, FiniteSetTheorems

-------------------------------------------------------------------------------
(* Vectors of indexes.                                                         *)
LEMMA RisingAppend ==
  ASSUME NEW s \in Seq(Nat), Rising(s), NEW x \in Nat, \A i \in 1 .. Len(s) : s[i] < x
  PROVE  Append(s, x) \in Seq(Nat) /\ Rising(Append(s, x))
<1> DEFINE t == Append(s, x)
           m == Len(s)
<1>1. /\ t \in Seq(Nat) /\ m \in Nat /\ Len(t) = m + 1 /\ t[m + 1] = x
      /\ \A i \in 1 .. m : t[i] = s[i] /\ s[i] < x
  OBVIOUS
<1>2. \A i, j \in 1 .. m : i < j => s[i] < s[j]
  BY DEF Rising, RisesTo
<1> HIDE DEF t, m
<1>3. \A i \in 1 .. m + 1 : i = m + 1 \/ i \in 1 .. m
  BY <1>1
<1>4. ASSUME NEW i \in 1 .. m + 1, NEW j \in 1 .. m + 1, i < j PROVE t[i] < t[j]
  <2>1. i \in 1 .. m
    BY <1>1, <1>4
  <2>2. CASE j = m + 1
    BY <1>1, <2>1, <2>2
  <2>3. CASE j \in 1 .. m
    BY <1>1, <1>2, <1>4, <2>1, <2>3
  <2> QED BY <1>3, <2>2, <2>3
<1>5. Rising(t)
  BY <1>1, <1>4 DEF Rising, RisesTo
<1> QED BY <1>1, <1>5 DEF t

(* erase(find(...)) of an index that stands in a vector once.                  *)
LEMMA RisingRemove ==
  ASSUME NEW s \in Seq(Nat), Rising(s), NEW k \in 1 .. Len(s)
  PROVE  LET t == RemoveFirst(s, s[k])
         IN /\ t \in Seq(Nat) /\ Rising(t)
            /\ \A i \in 1 .. Len(t) : \E j \in 1 .. Len(s) : t[i] = s[j] /\ j # k
            /\ \A j \in 1 .. Len(s) : j # k => \E i \in 1 .. Len(t) : t[i] = s[j]
<1> DEFINE m == Len(s)
           I == {i \in 1 .. m : s[i] = s[k]}
           t == RemoveFirst(s, s[k])
<1>1. m \in Nat /\ \A i \in 1 .. m : s[i] \in Nat
  OBVIOUS
<1>2. \A i, j \in 1 .. m : i < j => s[i] < s[j]
  BY DEF Rising, RisesTo
<1>3. k \in I /\ I \in SUBSET Nat
  OBVIOUS
<1>4. Min(I) \in I
  BY <1>3, MinOfNaturals
<1>5. \A i \in I : i = k
  <2> SUFFICES ASSUME NEW i \in 1 .. m, s[i] = s[k], i # k PROVE FALSE
    OBVIOUS
  <2>1. i < k \/ k < i
    BY <1>1
  <2>2. s[k] < s[k]
    BY <1>1, <1>2, <2>1
  <2>3. \A x \in Nat : ~(x < x)
    OBVIOUS
  <2> QED BY <1>1, <2>2, <2>3, Zenon
<1>6. t = SubSeq(s, 1, k - 1) \o SubSeq(s, k + 1, m)
  <2>1. Min(I) = k
    BY <1>4, <1>5
  <2>2. SelectInSeq(s, LAMBDA v : v = s[k]) = k
    BY <1>3, <2>1 DEF SelectInSeq
  <2>3. t = RemoveAt(s, SelectInSeq(s, LAMBDA v : v = s[k]))
    BY DEF RemoveFirst
  <2> QED BY <2>2, <2>3 DEF RemoveAt
<1> HIDE DEF I, t
<1>7. k \in Nat /\ k >= 1 /\ k <= m
  BY <1>1
<1>8. /\ t \in Seq(Nat) /\ Len(t) = m - 1
       /\ \A i \in 1 .. m - 1 : t[i] = IF i < k THEN s[i] ELSE s[i + 1]
  <2>1. 1 <= k /\ k <= k + 1 /\ k <= Len(s) /\ k - (k - 1) = 1
    BY <1>7
  <2>2. /\ t \in Seq(Nat) /\ Len(t) = Len(s) - (k - (k - 1))
        /\ \A i \in 1 .. Len(t) : t[i] = IF i < k THEN s[i] ELSE s[i + (k - (k - 1))]
    BY <1>6, <1>7, <2>1, CutOut
  <2> QED BY <2>1, <2>2
<1> HIDE DEF m
<1> DEFINE h(i) == IF i < k THEN i ELSE i + 1
<1>9. \A i \in 1 .. m - 1 : h(i) \in 1 .. m /\ h(i) # k /\ t[i] = s[h(i)]
  BY <1>1, <1>7, <1>8
<1>10. \A i, j \in 1 .. m - 1 : i < j => h(i) < h(j)
  BY <1>7
<1>11. \A j \in 1 .. m : j # k => \E i \in 1 .. m - 1 : h(i) = j
  <2> SUFFICES ASSUME NEW j \in 1 .. m, j # k PROVE \E i \in 1 .. m - 1 : h(i) = j
    OBVIOUS
  <2>1. CASE j < k
    <3>1. j \in 1 .. m - 1
      BY <1>1, <1>7, <2>1
    <3> QED BY <2>1, <3>1
  <2>2. CASE k < j
    <3>1. j - 1 \in 1 .. m - 1 /\ ~(j - 1 < k) /\ (j - 1) + 1 = j
      BY <1>1, <1>7, <2>2
    <3> QED BY <3>1
  <2> QED BY <1>7, <2>1, <2>2
<1> HIDE DEF h
<1>12. Rising(t)
  BY <1>2, <1>8, <1>9, <1>10 DEF Rising, RisesTo
<1>13. \A j \in 1 .. m : j # k => \E i \in 1 .. m - 1 : t[i] = s[j]
  BY <1>9, <1>11
<1> QED BY <1>8, <1>9, <1>12, <1>13 DEF m, t

-------------------------------------------------------------------------------
(* The five maps and the records.                                              *)
Maps == [Fields -> [Value -> Seq(Nat)]]

(* What a vector of the maps has to hold.                                      *)
Holds(s, R, f, v) ==
  /\ Rising(s)
  /\ \A i \in 1 .. Len(s) : \E r \in R : r.lesson[f] = v /\ s[i] = r.index
  /\ \A r \in R : r.lesson[f] = v => \E i \in 1 .. Len(s) : s[i] = r.index

Agrees(maps, R) == \A f \in Fields : \A v \in Value : Holds(maps[f][v], R, f, v)

(* A number says which record it is.                                           *)
Distinct(R) == \A q, r \in R : q.index = r.index => q = r

LEMMA RemoveFirstType ==
  ASSUME NEW s \in Seq(Nat), NEW e
  PROVE  RemoveFirst(s, e) \in Seq(Nat)
<1> DEFINE I == {i \in 1 .. Len(s) : s[i] = e}
<1>1. CASE I = {}
  <2>1. ~\E i \in 1 .. Len(s) : s[i] = e
    BY <1>1
  <2> QED BY <2>1 DEF RemoveFirst
<1>2. CASE I # {}
  <2> DEFINE k == Min(I)
  <2>1. I \in SUBSET Nat
    OBVIOUS
  <2>2. k \in 1 .. Len(s)
    BY <1>2, <2>1, MinOfNaturals
  <2>3. SelectInSeq(s, LAMBDA v : v = e) = k
    BY <1>2 DEF SelectInSeq
  <2>4. \E i \in 1 .. Len(s) : s[i] = e
    BY <1>2
  <2> HIDE DEF k, I
  <2>5. RemoveFirst(s, e) = SubSeq(s, 1, k - 1) \o SubSeq(s, k + 1, Len(s))
    BY <2>3, <2>4 DEF RemoveFirst, RemoveAt
  <2>6. SubSeq(s, 1, k - 1) \in Seq(Nat) /\ SubSeq(s, k + 1, Len(s)) \in Seq(Nat)
    BY <2>2
  <2> QED BY <2>5, <2>6
<1> QED BY <1>1, <1>2

LEMMA AddType ==
  ASSUME NEW maps \in Maps, NEW r \in Records
  PROVE  add_el_to_maps(maps, r.lesson, r.index) \in Maps
<1> DEFINE longer(s) == Append(s, r.index)
<1>1. r.lesson \in [Fields -> Value] /\ \A s \in Seq(Nat) : longer(s) \in Seq(Nat)
  BY DEF Records
<1>2. add_el_to_maps(maps, r.lesson, r.index) = [f \in Fields |-> [maps[f] EXCEPT ![r.lesson[f]] = longer(@)]]
  BY DEF add_el_to_maps
<1> HIDE DEF longer
<1>3. \A f \in Fields : [maps[f] EXCEPT ![r.lesson[f]] = longer(@)] \in [Value -> Seq(Nat)]
  BY <1>1 DEF Maps
<1> QED BY <1>2, <1>3 DEF Maps

LEMMA DelType ==
  ASSUME NEW maps \in Maps, NEW r \in Records
  PROVE  del_el_from_maps(maps, r.lesson, r.index) \in Maps
<1> DEFINE shorter(s) == RemoveFirst(s, r.index)
<1>1. r.lesson \in [Fields -> Value] /\ \A s \in Seq(Nat) : shorter(s) \in Seq(Nat)
  BY RemoveFirstType DEF Records
<1>2. del_el_from_maps(maps, r.lesson, r.index) = [f \in Fields |-> [maps[f] EXCEPT ![r.lesson[f]] = shorter(@)]]
  BY DEF del_el_from_maps
<1> HIDE DEF shorter
<1>3. \A f \in Fields : [maps[f] EXCEPT ![r.lesson[f]] = shorter(@)] \in [Value -> Seq(Nat)]
  BY <1>1 DEF Maps
<1> QED BY <1>2, <1>3 DEF Maps

LEMMA AddAgrees ==
  ASSUME NEW maps \in Maps, NEW R \in SUBSET Records, Agrees(maps, R),
         NEW r \in Records, \A q \in R : q.index < r.index
  PROVE  LET new == add_el_to_maps(maps, r.lesson, r.index)
         IN Agrees(new, R \cup {r})
<1> DEFINE new == add_el_to_maps(maps, r.lesson, r.index)
           k == r.index
<1>1. r.lesson \in [Fields -> Value] /\ k \in Nat
  BY DEF Records
<1>2. \A q \in R : q.index < k
  OBVIOUS
<1>3. \A f \in Fields : \A v \in Value : maps[f][v] \in Seq(Nat)
  BY DEF Maps
<1>4. /\ new = [f \in Fields |-> new[f]]
      /\ \A f \in Fields : new[f] = [maps[f] EXCEPT ![r.lesson[f]] = Append(@, k)]
  BY DEF add_el_to_maps
<1>5. \A f \in Fields : maps[f] \in [Value -> Seq(Nat)] /\ r.lesson[f] \in Value
  BY <1>1 DEF Maps
<1> HIDE DEF new, k
<1>6. ASSUME NEW f \in Fields, NEW v \in Value
      PROVE  new[f][v] = IF v = r.lesson[f] THEN Append(maps[f][v], k) ELSE maps[f][v]
  <2> DEFINE longer(s) == Append(s, k)
  <2>1. new[f] = [maps[f] EXCEPT ![r.lesson[f]] = longer(@)]
    BY <1>4
  <2> HIDE DEF longer
  <2>2. new[f][v] = IF v = r.lesson[f] THEN longer(maps[f][v]) ELSE maps[f][v]
    BY <1>5, <2>1
  <2> QED BY <2>2 DEF longer
<1>7. ASSUME NEW f \in Fields, NEW v \in Value
      PROVE  new[f][v] \in Seq(Nat) /\ Holds(new[f][v], R \cup {r}, f, v)
  <2> DEFINE s == maps[f][v]
  <2>1. s \in Seq(Nat) /\ Holds(s, R, f, v)
    BY <1>3 DEF Agrees
  <2>2. CASE v # r.lesson[f]
    <3>1. new[f][v] = s
      BY <1>6, <2>2
    <3> HIDE DEF s
    <3>2. \A i \in 1 .. Len(s) : \E q \in R \cup {r} : q.lesson[f] = v /\ s[i] = q.index
      BY <2>1 DEF Holds
    <3>3. \A q \in R \cup {r} : q.lesson[f] = v => \E i \in 1 .. Len(s) : s[i] = q.index
      BY <2>1, <2>2 DEF Holds
    <3> QED BY <2>1, <3>1, <3>2, <3>3 DEF Holds
  <2>3. CASE v = r.lesson[f]
    <3> DEFINE t == Append(s, k)
    <3>1. new[f][v] = t
      BY <1>6, <2>3
    <3> HIDE DEF s
    <3>2. \A i \in 1 .. Len(s) : s[i] < k
      BY <1>2, <2>1 DEF Holds
    <3>3. t \in Seq(Nat) /\ Rising(t)
      BY <1>1, <2>1, <3>2, RisingAppend DEF Holds, k
    <3>4. /\ Len(t) = Len(s) + 1 /\ Len(s) \in Nat /\ t[Len(s) + 1] = k
          /\ \A i \in 1 .. Len(s) : t[i] = s[i] /\ i \in 1 .. Len(t)
      BY <1>1, <2>1
    <3>5. \A i \in 1 .. Len(t) : i = Len(s) + 1 \/ i \in 1 .. Len(s)
      BY <3>4
    <3>6. Len(s) + 1 \in 1 .. Len(t)
      BY <3>4
    <3> HIDE DEF t
    <3>7. \A i \in 1 .. Len(t) : \E q \in R \cup {r} : q.lesson[f] = v /\ t[i] = q.index
      <4> SUFFICES ASSUME NEW i \in 1 .. Len(t) PROVE \E q \in R \cup {r} : q.lesson[f] = v /\ t[i] = q.index
        OBVIOUS
      <4>1. CASE i = Len(s) + 1
        BY <2>3, <3>4, <4>1 DEF k
      <4>2. CASE i \in 1 .. Len(s)
        BY <2>1, <3>4, <4>2 DEF Holds
      <4> QED BY <3>5, <4>1, <4>2
    <3>8. \A q \in R \cup {r} : q.lesson[f] = v => \E i \in 1 .. Len(t) : t[i] = q.index
      <4>1. \A q \in R : q.lesson[f] = v => \E i \in 1 .. Len(t) : t[i] = q.index
        BY <2>1, <3>4 DEF Holds
      <4> QED BY <3>4, <3>6, <4>1 DEF k
    <3> QED BY <3>1, <3>3, <3>7, <3>8 DEF Holds
  <2> QED BY <2>2, <2>3
<1>8. Agrees(new, R \cup {r})
  BY <1>7 DEF Agrees
<1> QED BY <1>8 DEF new

LEMMA DelAgrees ==
  ASSUME NEW maps \in Maps, NEW R \in SUBSET Records, Agrees(maps, R), Distinct(R), NEW r \in R
  PROVE  LET new == del_el_from_maps(maps, r.lesson, r.index)
         IN Agrees(new, R \ {r})
<1> DEFINE new == del_el_from_maps(maps, r.lesson, r.index)
           k == r.index
<1>1. r.lesson \in [Fields -> Value] /\ k \in Nat
  BY DEF Records
<1>2. \A q \in R : q.index = k => q = r
  BY DEF Distinct
<1>3. \A f \in Fields : \A v \in Value : maps[f][v] \in Seq(Nat)
  BY DEF Maps
<1>4. /\ new = [f \in Fields |-> new[f]]
      /\ \A f \in Fields : new[f] = [maps[f] EXCEPT ![r.lesson[f]] = RemoveFirst(@, k)]
  BY DEF del_el_from_maps
<1>5. \A f \in Fields : maps[f] \in [Value -> Seq(Nat)] /\ r.lesson[f] \in Value
  BY <1>1 DEF Maps
<1> HIDE DEF new, k
<1>6. ASSUME NEW f \in Fields, NEW v \in Value
      PROVE  new[f][v] = IF v = r.lesson[f] THEN RemoveFirst(maps[f][v], k) ELSE maps[f][v]
  BY <1>4, <1>5
<1>7. ASSUME NEW f \in Fields, NEW v \in Value
      PROVE  new[f][v] \in Seq(Nat) /\ Holds(new[f][v], R \ {r}, f, v)
  <2> DEFINE s == maps[f][v]
  <2>1. s \in Seq(Nat) /\ Holds(s, R, f, v)
    BY <1>3 DEF Agrees
  <2>2. CASE v # r.lesson[f]
    <3>1. new[f][v] = s
      BY <1>6, <2>2
    <3> HIDE DEF s
    <3>2. \A i \in 1 .. Len(s) : \E q \in R \ {r} : q.lesson[f] = v /\ s[i] = q.index
      BY <2>1, <2>2 DEF Holds
    <3>3. \A q \in R \ {r} : q.lesson[f] = v => \E i \in 1 .. Len(s) : s[i] = q.index
      BY <2>1 DEF Holds
    <3> QED BY <2>1, <3>1, <3>2, <3>3 DEF Holds
  <2>3. CASE v = r.lesson[f]
    <3> DEFINE t == RemoveFirst(s, k)
    <3>1. new[f][v] = t
      BY <1>6, <2>3
    <3> HIDE DEF s
    <3>2. PICK n \in 1 .. Len(s) : s[n] = k
      BY <2>1, <2>3 DEF Holds, k
    <3>3. /\ t \in Seq(Nat) /\ Rising(t)
          /\ \A i \in 1 .. Len(t) : \E j \in 1 .. Len(s) : t[i] = s[j] /\ j # n
          /\ \A j \in 1 .. Len(s) : j # n => \E i \in 1 .. Len(t) : t[i] = s[j]
      <4>1. t = RemoveFirst(s, s[n]) /\ Rising(s) /\ s \in Seq(Nat)
        BY <2>1, <3>2 DEF Holds
      <4> HIDE DEF t
      <4> QED BY <4>1, RisingRemove
    <3>4. \A i, j \in 1 .. Len(s) : s[i] = s[j] => i = j
      <4>1. \A i, j \in 1 .. Len(s) : i < j => s[i] < s[j]
        BY <2>1 DEF Holds, Rising, RisesTo
      <4>2. \A i \in 1 .. Len(s) : s[i] \in Nat
        BY <2>1
      <4> QED BY <4>1, <4>2
    <3> HIDE DEF t
    <3>5. \A i \in 1 .. Len(t) : \E q \in R \ {r} : q.lesson[f] = v /\ t[i] = q.index
      <4> SUFFICES ASSUME NEW i \in 1 .. Len(t) PROVE \E q \in R \ {r} : q.lesson[f] = v /\ t[i] = q.index
        OBVIOUS
      <4>1. PICK j \in 1 .. Len(s) : t[i] = s[j] /\ j # n
        BY <3>3
      <4>2. s[j] # k
        BY <3>2, <3>4, <4>1
      <4>3. PICK q \in R : q.lesson[f] = v /\ s[j] = q.index
        BY <2>1 DEF Holds
      <4> QED BY <4>1, <4>2, <4>3 DEF k
    <3>6. \A q \in R \ {r} : q.lesson[f] = v => \E i \in 1 .. Len(t) : t[i] = q.index
      <4> SUFFICES ASSUME NEW q \in R \ {r}, q.lesson[f] = v PROVE \E i \in 1 .. Len(t) : t[i] = q.index
        OBVIOUS
      <4>1. PICK j \in 1 .. Len(s) : s[j] = q.index
        BY <2>1 DEF Holds
      <4>2. q.index # k
        BY <1>2
      <4> QED BY <3>2, <3>3, <4>1, <4>2
    <3> QED BY <3>1, <3>3, <3>5, <3>6 DEF Holds
  <2> QED BY <2>2, <2>3
<1>8. Agrees(new, R \ {r})
  BY <1>7 DEF Agrees
<1> QED BY <1>8 DEF new


-------------------------------------------------------------------------------
(* Records in the order of their numbers.                                      *)
InOrder(records) == \A i, j \in 1 .. Len(records) : i < j => records[i].index < records[j].index
Elements(records) == {records[i] : i \in 1 .. Len(records)}

LEMMA OrderedAreDistinct ==
  ASSUME NEW records \in Seq(Records), InOrder(records)
  PROVE  /\ Elements(records) \in SUBSET Records /\ Distinct(Elements(records))
         /\ \A i, j \in 1 .. Len(records) : records[i].index = records[j].index => i = j
<1>1. \A i \in 1 .. Len(records) : records[i] \in Records /\ records[i].index \in Nat
  <2>1. \A i \in 1 .. Len(records) : records[i] \in Records
    OBVIOUS
  <2> QED BY <2>1 DEF Records
<1>2. ASSUME NEW i \in 1 .. Len(records), NEW j \in 1 .. Len(records), records[i].index = records[j].index
      PROVE  i = j
  <2>1. \A m, n \in Nat : m = n => ~(m < n) /\ ~(n < m)
    OBVIOUS
  <2>2. ~(records[i].index < records[j].index) /\ ~(records[j].index < records[i].index)
    BY <1>1, <1>2, <2>1, Zenon
  <2>3. ~(i < j) /\ ~(j < i)
    BY <2>2 DEF InOrder
  <2> QED BY <2>3
<1>3. Elements(records) \in SUBSET Records
  BY <1>1 DEF Elements
<1>4. Distinct(Elements(records))
  BY <1>2 DEF Elements, Distinct
<1> QED BY <1>2, <1>3, <1>4

(* What is picked of them is in order too.                                     *)
LEMMA PickedInOrder ==
  ASSUME NEW records \in Seq(Records), InOrder(records), NEW K \in SUBSET (1 .. Len(records))
  PROVE  LET p == Picked(records, K)
         IN /\ p \in Seq(Records) /\ InOrder(p)
            /\ \A i \in 1 .. Len(p) : \E k \in K : p[i] = records[k]
            /\ \A k \in K : \E i \in 1 .. Len(p) : p[i] = records[k]
<1> DEFINE p == Picked(records, K)
<1>1. p \in Seq(Records) /\ \E h : Tells(h, records, K, p)
  BY PickedTells
<1> HIDE DEF p
<1>2. PICK h : Tells(h, records, K, p)
  BY <1>1
<1>3. \A i \in 1 .. Len(p) : h[i] \in K /\ p[i] = records[h[i]]
  BY <1>2 DEF Tells
<1>4. \A k \in K : \E i \in 1 .. Len(p) : h[i] = k
  BY <1>2 DEF Tells
<1>5. InOrder(p)
  <2> SUFFICES ASSUME NEW i \in 1 .. Len(p), NEW j \in 1 .. Len(p), i < j PROVE p[i].index < p[j].index
    BY DEF InOrder
  <2>1. h[i] < h[j] /\ h[i] \in 1 .. Len(records) /\ h[j] \in 1 .. Len(records)
    BY <1>2, <1>3 DEF Tells
  <2> QED BY <1>3, <2>1 DEF InOrder
<1> QED BY <1>1, <1>3, <1>4, <1>5, ZenonT(40) DEF p

(* New records are numbered from the first free number on.                     *)
LEMMA IndexedInOrder ==
  ASSUME NEW lessons \in Seq([Fields -> Value]), NEW first \in Nat
  PROVE  LET new == Indexed(lessons, first)
         IN /\ new \in Seq(Records) /\ Len(new) = Len(lessons) /\ InOrder(new)
            /\ \A i \in 1 .. Len(new) : new[i].index = first + i - 1 /\ new[i].lesson = lessons[i]
<1> DEFINE new == Indexed(lessons, first)
           n == Len(lessons)
           rec(i) == [index |-> first + i - 1, lesson |-> lessons[i]]
<1>1. n \in Nat /\ DOMAIN lessons = 1 .. n /\ \A i \in 1 .. n : lessons[i] \in [Fields -> Value]
  OBVIOUS
<1>2. new = [i \in 1 .. n |-> rec(i)]
  BY <1>1 DEF Indexed
<1>3. \A i \in 1 .. n : rec(i) \in Records /\ rec(i).index = first + i - 1 /\ rec(i).lesson = lessons[i]
  BY <1>1 DEF Records
<1> HIDE DEF new, n, rec
<1>4. new \in Seq(Records) /\ Len(new) = n /\ \A i \in 1 .. n : new[i] = rec(i)
  BY <1>1, <1>2, <1>3
<1>5. \A i \in 1 .. n : new[i].index = first + i - 1 /\ new[i].lesson = lessons[i]
  BY <1>3, <1>4
<1>6. InOrder(new)
  <2> SUFFICES ASSUME NEW i \in 1 .. n, NEW j \in 1 .. n, i < j PROVE new[i].index < new[j].index
    BY <1>4 DEF InOrder
  <2>1. i \in Nat /\ j \in Nat /\ first + i - 1 < first + j - 1
    OBVIOUS
  <2> QED BY <1>5, <2>1
<1> QED BY <1>4, <1>5, <1>6 DEF new, n

LEMMA ConcatInOrder ==
  ASSUME NEW a \in Seq(Records), NEW b \in Seq(Records), InOrder(a), InOrder(b),
         \A i \in 1 .. Len(a) : \A j \in 1 .. Len(b) : a[i].index < b[j].index
  PROVE  a \o b \in Seq(Records) /\ InOrder(a \o b) /\ Elements(a \o b) = Elements(a) \cup Elements(b)
<1> DEFINE c == a \o b
           m == Len(a)
           n == Len(b)
<1>1. /\ c \in Seq(Records) /\ m \in Nat /\ n \in Nat /\ Len(c) = m + n
      /\ (\A i \in 1 .. m : c[i] = a[i]) /\ \A i \in 1 .. n : c[m + i] = b[i]
  OBVIOUS
<1>2. \A i \in 1 .. m : \A j \in 1 .. n : a[i].index < b[j].index
  OBVIOUS
<1>3. /\ \A i, j \in 1 .. m : i < j => a[i].index < a[j].index
      /\ \A i, j \in 1 .. n : i < j => b[i].index < b[j].index
  BY DEF InOrder
<1>4. Elements(a) = {a[i] : i \in 1 .. m} /\ Elements(b) = {b[i] : i \in 1 .. n} /\ Elements(c) = {c[i] : i \in 1 .. m + n}
  BY <1>1 DEF Elements
<1> HIDE DEF c, m, n
<1>5. \A i \in 1 .. m + n : i \in 1 .. m \/ (i - m \in 1 .. n /\ m + (i - m) = i)
  BY <1>1
<1>6. ASSUME NEW i \in 1 .. m + n, NEW j \in 1 .. m + n, i < j PROVE c[i].index < c[j].index
  <2>1. CASE j \in 1 .. m
    <3>1. i \in 1 .. m
      BY <1>1, <1>6, <2>1
    <3> QED BY <1>1, <1>3, <1>6, <2>1, <3>1
  <2>2. CASE i \in 1 .. m /\ j - m \in 1 .. n /\ m + (j - m) = j
    <3>1. c[j] = b[j - m] /\ c[i] = a[i]
      BY <1>1, <2>2
    <3> QED BY <1>2, <2>2, <3>1
  <2>3. CASE i - m \in 1 .. n /\ m + (i - m) = i /\ j - m \in 1 .. n /\ m + (j - m) = j
    <3>1. c[j] = b[j - m] /\ c[i] = b[i - m]
      BY <1>1, <2>3
    <3>2. i - m < j - m
      BY <1>1, <1>6
    <3> QED BY <1>3, <2>3, <3>1, <3>2
  <2> QED BY <1>5, <2>1, <2>2, <2>3
<1>7. InOrder(c)
  BY <1>1, <1>6 DEF InOrder
<1>8. Elements(c) = Elements(a) \cup Elements(b)
  <2>1. \A i \in 1 .. m : i \in 1 .. m + n
    BY <1>1
  <2>2. \A i \in 1 .. n : m + i \in 1 .. m + n
    BY <1>1
  <2>3. \A i \in 1 .. m + n : c[i] \in Elements(a) \cup Elements(b)
    <3> TAKE i \in 1 .. m + n
    <3>1. CASE i \in 1 .. m
      BY <1>1, <1>4, <3>1
    <3>2. CASE i - m \in 1 .. n /\ m + (i - m) = i
      BY <1>1, <1>4, <3>2
    <3> QED BY <1>5, <3>1, <3>2
  <2>4. \A i \in 1 .. m : a[i] \in Elements(c)
    BY <1>1, <1>4, <2>1
  <2>5. \A i \in 1 .. n : b[i] \in Elements(c)
    BY <1>1, <1>4, <2>2
  <2> QED BY <1>4, <2>3, <2>4, <2>5
<1> QED BY <1>1, <1>7, <1>8 DEF c

-------------------------------------------------------------------------------
(* The loops over the records that are added, or removed.                      *)
AddAllSoFar(maps, records, f) ==
  [n \in 0 .. Len(records) |->
     IF n = 0 THEN maps ELSE add_el_to_maps(f[n - 1], records[n].lesson, records[n].index)]

LEMMA AddAllRule ==
  ASSUME NEW maps \in Maps, NEW records \in Seq(Records)
  PROVE  \E f \in [0 .. Len(records) -> Maps] :
           /\ f[0] = maps /\ AddAll(maps, records) = f[Len(records)]
           /\ \A i \in 1 .. Len(records) : f[i] = add_el_to_maps(f[i - 1], records[i].lesson, records[i].index)
<1> DEFINE N == Len(records)
           Step(m, i) == add_el_to_maps(m, records[i].lesson, records[i].index)
           step == [x \in (1 .. N) \X Maps |-> Step(x[2], x[1])]
           F == CHOOSE f : f = AddAllSoFar(maps, records, f)
<1>1. N \in Nat /\ \A i \in 1 .. N : \A m \in Maps : Step(m, i) \in Maps
  <2>1. \A i \in 1 .. N : records[i] \in Records
    OBVIOUS
  <2> QED BY <2>1, AddType
<1>2. AddAll(maps, records) = F[N]
  BY DEF AddAll, AddAllSoFar
<1>3. ASSUME NEW f PROVE AddAllSoFar(maps, records, f) = [n \in 0 .. N |-> IF n = 0 THEN maps ELSE Step(f[n - 1], n)]
  BY DEF AddAllSoFar
<1> HIDE DEF N, F, Step
<1>4. step \in [(1 .. N) \X Maps -> Maps] /\ \A i \in 1 .. N : \A m \in Maps : step[<< i, m >>] = Step(m, i)
  BY <1>1
<1> HIDE DEF step
<1>5. PICK g : Defined(g, N, Maps, maps, step)
  BY <1>1, <1>4, Recursion, Zenon
<1>6. g = AddAllSoFar(maps, records, g)
  <2>1. g \in [0 .. N -> Maps] /\ g[0] = maps /\ \A i \in 1 .. N : g[i] = step[<< i, g[i - 1] >>]
    BY <1>5 DEF Defined
  <2>2. \A i \in 1 .. N : g[i] = Step(g[i - 1], i)
    <3> TAKE i \in 1 .. N
    <3>1. i - 1 \in 0 .. N
      BY <1>1
    <3> QED BY <1>4, <2>1, <3>1
  <2>3. \A i \in 0 .. N : g[i] = IF i = 0 THEN maps ELSE Step(g[i - 1], i)
    BY <1>1, <2>1, <2>2
  <2> DEFINE G == [n \in 0 .. N |-> IF n = 0 THEN maps ELSE Step(g[n - 1], n)]
  <2>4. g = G
    BY <2>1, <2>3
  <2>5. AddAllSoFar(maps, records, g) = G
    BY <1>3
  <2> QED BY <2>4, <2>5
<1>7. F = AddAllSoFar(maps, records, F)
  BY <1>6 DEF F
<1> DEFINE R == [k \in 1 .. N |-> Step(F[k - 1], k)]
<1>8. F = [k \in 0 .. N |-> IF k = 0 THEN maps ELSE R[k]]
  <2>1. \A k \in 0 .. N : k # 0 => k \in 1 .. N
    BY <1>1
  <2> QED BY <1>3, <1>7, <2>1
<1>9. \A k \in 1 .. N : F[k - 1] \in Maps => R[k] = step[<< k, F[k - 1] >>]
  BY <1>4
<1> HIDE DEF R
<1>10. Defined(F, N, Maps, maps, step)
  BY <1>1, <1>4, <1>8, <1>9, RuleFollowed
<1>11. F \in [0 .. N -> Maps] /\ F[0] = maps /\ \A i \in 1 .. N : F[i] = step[<< i, F[i - 1] >>]
  BY <1>10 DEF Defined
<1>12. \A i \in 1 .. N : F[i] = Step(F[i - 1], i)
  <2> TAKE i \in 1 .. N
  <2>1. i - 1 \in 0 .. N
    BY <1>1
  <2> QED BY <1>4, <1>11, <2>1
<1> QED BY <1>2, <1>11, <1>12 DEF N, Step

DeleteAllSoFar(maps, records, f) ==
  [n \in 0 .. Len(records) |->
     IF n = 0 THEN maps ELSE del_el_from_maps(f[n - 1], records[n].lesson, records[n].index)]

LEMMA DeleteAllRule ==
  ASSUME NEW maps \in Maps, NEW records \in Seq(Records)
  PROVE  \E f \in [0 .. Len(records) -> Maps] :
           /\ f[0] = maps /\ DeleteAll(maps, records) = f[Len(records)]
           /\ \A i \in 1 .. Len(records) : f[i] = del_el_from_maps(f[i - 1], records[i].lesson, records[i].index)
<1> DEFINE N == Len(records)
           Step(m, i) == del_el_from_maps(m, records[i].lesson, records[i].index)
           step == [x \in (1 .. N) \X Maps |-> Step(x[2], x[1])]
           F == CHOOSE f : f = DeleteAllSoFar(maps, records, f)
<1>1. N \in Nat /\ \A i \in 1 .. N : \A m \in Maps : Step(m, i) \in Maps
  <2>1. \A i \in 1 .. N : records[i] \in Records
    OBVIOUS
  <2> QED BY <2>1, DelType
<1>2. DeleteAll(maps, records) = F[N]
  BY DEF DeleteAll, DeleteAllSoFar
<1>3. ASSUME NEW f PROVE DeleteAllSoFar(maps, records, f) = [n \in 0 .. N |-> IF n = 0 THEN maps ELSE Step(f[n - 1], n)]
  BY DEF DeleteAllSoFar
<1> HIDE DEF N, F, Step
<1>4. step \in [(1 .. N) \X Maps -> Maps] /\ \A i \in 1 .. N : \A m \in Maps : step[<< i, m >>] = Step(m, i)
  BY <1>1
<1> HIDE DEF step
<1>5. PICK g : Defined(g, N, Maps, maps, step)
  BY <1>1, <1>4, Recursion, Zenon
<1>6. g = DeleteAllSoFar(maps, records, g)
  <2>1. g \in [0 .. N -> Maps] /\ g[0] = maps /\ \A i \in 1 .. N : g[i] = step[<< i, g[i - 1] >>]
    BY <1>5 DEF Defined
  <2>2. \A i \in 1 .. N : g[i] = Step(g[i - 1], i)
    <3> TAKE i \in 1 .. N
    <3>1. i - 1 \in 0 .. N
      BY <1>1
    <3> QED BY <1>4, <2>1, <3>1
  <2>3. \A i \in 0 .. N : g[i] = IF i = 0 THEN maps ELSE Step(g[i - 1], i)
    BY <1>1, <2>1, <2>2
  <2> DEFINE G == [n \in 0 .. N |-> IF n = 0 THEN maps ELSE Step(g[n - 1], n)]
  <2>4. g = G
    BY <2>1, <2>3
  <2>5. DeleteAllSoFar(maps, records, g) = G
    BY <1>3
  <2> QED BY <2>4, <2>5
<1>7. F = DeleteAllSoFar(maps, records, F)
  BY <1>6 DEF F
<1> DEFINE R == [k \in 1 .. N |-> Step(F[k - 1], k)]
<1>8. F = [k \in 0 .. N |-> IF k = 0 THEN maps ELSE R[k]]
  <2>1. \A k \in 0 .. N : k # 0 => k \in 1 .. N
    BY <1>1
  <2> QED BY <1>3, <1>7, <2>1
<1>9. \A k \in 1 .. N : F[k - 1] \in Maps => R[k] = step[<< k, F[k - 1] >>]
  BY <1>4
<1> HIDE DEF R
<1>10. Defined(F, N, Maps, maps, step)
  BY <1>1, <1>4, <1>8, <1>9, RuleFollowed
<1>11. F \in [0 .. N -> Maps] /\ F[0] = maps /\ \A i \in 1 .. N : F[i] = step[<< i, F[i - 1] >>]
  BY <1>10 DEF Defined
<1>12. \A i \in 1 .. N : F[i] = Step(F[i - 1], i)
  <2> TAKE i \in 1 .. N
  <2>1. i - 1 \in 0 .. N
    BY <1>1
  <2> QED BY <1>4, <1>11, <2>1
<1> QED BY <1>2, <1>11, <1>12 DEF N, Step

FirstOf(records, n) == {records[i] : i \in 1 .. n}

LEMMA FirstOfMore ==
  ASSUME NEW records, NEW n \in Nat
  PROVE  FirstOf(records, n + 1) = FirstOf(records, n) \cup {records[n + 1]} /\ FirstOf(records, 0) = {}
<1>1. 1 .. n + 1 = (1 .. n) \cup {n + 1} /\ 1 .. 0 = {}
  OBVIOUS
<1> QED BY <1>1 DEF FirstOf

LEMMA AddAllAgrees ==
  ASSUME NEW maps \in Maps, NEW R \in SUBSET Records, Agrees(maps, R),
         NEW records \in Seq(Records), InOrder(records),
         \A r \in R : \A i \in 1 .. Len(records) : r.index < records[i].index
  PROVE  AddAll(maps, records) \in Maps /\ Agrees(AddAll(maps, records), R \cup Elements(records))
<1> DEFINE N == Len(records)
<1>1. PICK f \in [0 .. N -> Maps] :
        /\ f[0] = maps /\ AddAll(maps, records) = f[N]
        /\ \A i \in 1 .. N : f[i] = add_el_to_maps(f[i - 1], records[i].lesson, records[i].index)
  BY AddAllRule
<1>2. N \in Nat /\ (\A i \in 1 .. N : records[i] \in Records) /\ Elements(records) = FirstOf(records, N)
  BY DEF Elements, FirstOf
<1>3. (\A r \in R : \A i \in 1 .. N : r.index < records[i].index) /\ \A i, j \in 1 .. N : i < j => records[i].index < records[j].index
  BY DEF InOrder
<1> HIDE DEF N
<1> DEFINE S == {n \in Nat : n <= N => Agrees(f[n], R \cup FirstOf(records, n))}
<1>4. 0 \in S
  <2>1. R \cup FirstOf(records, 0) = R
    BY FirstOfMore
  <2> QED BY <1>1, <2>1
<1>5. ASSUME NEW n \in Nat, n \in S PROVE n + 1 \in S
  <2> SUFFICES ASSUME n + 1 <= N PROVE Agrees(f[n + 1], R \cup FirstOf(records, n + 1))
    OBVIOUS
  <2> DEFINE Q == R \cup FirstOf(records, n)
             r == records[n + 1]
  <2>1. n + 1 \in 1 .. N /\ n \in 0 .. N /\ (n + 1) - 1 = n /\ \A i \in 1 .. n : i \in 1 .. N /\ i < n + 1
    BY <1>2
  <2>2. f[n] \in Maps /\ Agrees(f[n], Q) /\ r \in Records
    BY <1>1, <1>2, <1>5, <2>1
  <2>3. Q \in SUBSET Records /\ \A q \in Q : q.index < r.index
    BY <1>2, <1>3, <2>1 DEF FirstOf
  <2>4. f[n + 1] = add_el_to_maps(f[n], r.lesson, r.index)
    BY <1>1, <2>1
  <2>5. Q \cup {r} = R \cup FirstOf(records, n + 1)
    BY FirstOfMore
  <2> HIDE DEF Q, r
  <2> QED BY <2>2, <2>3, <2>4, <2>5, AddAgrees
<1>6. \A n \in Nat : n \in S
  <2> HIDE DEF S
  <2> QED BY <1>4, <1>5, Induction
<1>7. f[N] \in Maps /\ Agrees(f[N], R \cup FirstOf(records, N))
  <2>1. N \in S
    BY <1>2, <1>6
  <2>2. N <= N /\ N \in 0 .. N
    BY <1>2
  <2> QED BY <1>1, <2>1, <2>2
<1> QED BY <1>1, <1>2, <1>7

LEMMA DeleteAllAgrees ==
  ASSUME NEW maps \in Maps, NEW R \in SUBSET Records, Agrees(maps, R), Distinct(R),
         NEW records \in Seq(Records), InOrder(records), Elements(records) \subseteq R
  PROVE  DeleteAll(maps, records) \in Maps /\ Agrees(DeleteAll(maps, records), R \ Elements(records))
<1> DEFINE N == Len(records)
<1>1. PICK f \in [0 .. N -> Maps] :
        /\ f[0] = maps /\ DeleteAll(maps, records) = f[N]
        /\ \A i \in 1 .. N : f[i] = del_el_from_maps(f[i - 1], records[i].lesson, records[i].index)
  BY DeleteAllRule
<1>2. N \in Nat /\ Elements(records) = FirstOf(records, N) /\ \A i \in 1 .. N : records[i] \in R
  BY DEF Elements, FirstOf
<1>3. \A i, j \in 1 .. N : records[i].index = records[j].index => i = j
  BY OrderedAreDistinct
<1> HIDE DEF N
<1> DEFINE S == {n \in Nat : n <= N => Agrees(f[n], R \ FirstOf(records, n))}
<1>4. 0 \in S
  <2>1. R \ FirstOf(records, 0) = R
    BY FirstOfMore
  <2> QED BY <1>1, <2>1
<1>5. ASSUME NEW n \in Nat, n \in S PROVE n + 1 \in S
  <2> SUFFICES ASSUME n + 1 <= N PROVE Agrees(f[n + 1], R \ FirstOf(records, n + 1))
    OBVIOUS
  <2> DEFINE Q == R \ FirstOf(records, n)
             r == records[n + 1]
  <2>1. n + 1 \in 1 .. N /\ n \in 0 .. N /\ (n + 1) - 1 = n /\ \A i \in 1 .. n : i \in 1 .. N /\ i # n + 1
    BY <1>2
  <2>2. r \in Q
    BY <1>2, <1>3, <2>1 DEF FirstOf
  <2>3. f[n] \in Maps /\ Agrees(f[n], Q)
    BY <1>1, <1>5, <2>1
  <2>4. Q \in SUBSET Records /\ Distinct(Q)
    BY DEF Distinct
  <2>5. f[n + 1] = del_el_from_maps(f[n], r.lesson, r.index)
    BY <1>1, <2>1
  <2>6. Q \ {r} = R \ FirstOf(records, n + 1)
    <3>1. FirstOf(records, n + 1) = FirstOf(records, n) \cup {r}
      BY FirstOfMore
    <3> QED BY <3>1
  <2> HIDE DEF Q, r
  <2> QED BY <2>2, <2>3, <2>4, <2>5, <2>6, DelAgrees
<1>6. \A n \in Nat : n \in S
  <2> HIDE DEF S
  <2> QED BY <1>4, <1>5, Induction
<1>7. f[N] \in Maps /\ Agrees(f[N], R \ FirstOf(records, N))
  <2>1. N \in S
    BY <1>2, <1>6
  <2>2. N <= N /\ N \in 0 .. N
    BY <1>2
  <2> QED BY <1>1, <2>1, <2>2
<1> QED BY <1>1, <1>2, <1>7

(* Maps that agree with records in order are what MapsAgree asks for.          *)
LEMMA AgreedVector ==
  ASSUME NEW maps \in Maps, NEW records \in Seq(Records), InOrder(records), Agrees(maps, Elements(records)),
         NEW f \in Fields, NEW v \in Value
  PROVE  LET those == Picked(records, {i \in DOMAIN records : records[i].lesson[f] = v})
         IN maps[f][v] = [i \in DOMAIN those |-> those[i].index]
<1> DEFINE K == {i \in DOMAIN records : records[i].lesson[f] = v}
           those == Picked(records, K)
           s == maps[f][v]
           t == [i \in DOMAIN those |-> those[i].index]
           n == Len(those)
<1>1. DOMAIN records = 1 .. Len(records)
  OBVIOUS
<1>2. K \in SUBSET (1 .. Len(records)) /\ \A k \in 1 .. Len(records) : k \in K <=> records[k].lesson[f] = v
  BY <1>1
<1> HIDE DEF K
<1>3. /\ those \in Seq(Records) /\ InOrder(those)
      /\ \A i \in 1 .. n : \E k \in K : those[i] = records[k]
      /\ \A k \in K : \E i \in 1 .. n : those[i] = records[k]
  BY <1>2, PickedInOrder
<1> HIDE DEF those
<1>4. n \in Nat /\ DOMAIN those = 1 .. n /\ \A i \in 1 .. n : those[i] \in Records
  BY <1>3
<1>5. s \in Seq(Nat) /\ Holds(s, Elements(records), f, v)
  BY DEF Agrees, Maps
<1>6. \A i \in 1 .. n : those[i].index \in Nat
  BY <1>4 DEF Records
<1> HIDE DEF n, s
<1>7. t \in Seq(Nat) /\ Len(t) = n /\ \A i \in 1 .. n : t[i] = those[i].index
  BY <1>4, <1>6
<1> HIDE DEF t
<1>8. Rising(t)
  BY <1>3, <1>7 DEF Rising, RisesTo, InOrder, n
<1>9. Among(s, Len(s), t, Len(t))
  <2> SUFFICES ASSUME NEW i \in 1 .. Len(s) PROVE \E j \in 1 .. n : s[i] = t[j]
    BY <1>7 DEF Among
  <2>1. PICK r \in Elements(records) : r.lesson[f] = v /\ s[i] = r.index
    BY <1>5 DEF Holds
  <2>2. PICK k \in 1 .. Len(records) : r = records[k]
    BY DEF Elements
  <2>3. PICK j \in 1 .. n : those[j] = records[k]
    BY <1>2, <1>3, <2>1, <2>2
  <2> QED BY <1>7, <2>1, <2>2, <2>3
<1>10. Among(t, Len(t), s, Len(s))
  <2> SUFFICES ASSUME NEW j \in 1 .. n PROVE \E i \in 1 .. Len(s) : t[j] = s[i]
    BY <1>7 DEF Among
  <2>1. PICK k \in K : those[j] = records[k]
    BY <1>3
  <2>2. records[k] \in Elements(records) /\ records[k].lesson[f] = v
    BY <1>2 DEF Elements
  <2>3. PICK i \in 1 .. Len(s) : s[i] = records[k].index
    BY <1>5, <2>2 DEF Holds
  <2> QED BY <1>7, <2>1, <2>3
<1>11. s = t
  BY <1>5, <1>7, <1>8, <1>9, <1>10, SameRising DEF Holds
<1> QED BY <1>11 DEF s, t, those, K
-------------------------------------------------------------------------------
(* The commands that are executed.                                             *)
Kept == {c \in AllCommands : Accepted(c)}

LEMMA KeptWords ==
  ASSUME NEW c \in Kept
  PROVE  c \in AllCommands /\ Accepted(c) /\ c.words \in Seq(AllWords) /\ DOMAIN c.words = 1 .. Len(c.words)
BY ValueAssumption DEF Kept

(* Of a request that is refused only what comes before the refused command.    *)
LEMMA PushedKept ==
  ASSUME NEW req \in Requests
  PROVE  Pushed(req) \in Seq(Kept)
<1> DEFINE s == req.commands
           I == {i \in 1 .. Len(s) : ~Accepted(s[i])}
<1>1. s \in Seq(AllCommands) /\ Len(s) \in Nat
  BY ValueAssumption
<1>2. SelectInSeq(s, LAMBDA c : ~Accepted(c)) = IF I # {} THEN Min(I) ELSE 0
  BY DEF SelectInSeq
<1>3. FirstRefused(req) = IF I # {} THEN Min(I) ELSE 0
  BY <1>2 DEF FirstRefused
<1>4. \A i \in 1 .. Len(s) : i \notin I => s[i] \in Kept
  BY <1>1 DEF Kept
<1>5. CASE ~req.ended
  BY <1>5 DEF Pushed
<1>6. CASE req.ended /\ FirstRefused(req) = 0
  <2>1. I = {}
    <3>1. I # {} => Min(I) \in I
      <4>1. I \in SUBSET Nat
        OBVIOUS
      <4> QED BY <4>1, MinOfNaturals
    <3>2. \A i \in I : i # 0
      BY <1>1
    <3> HIDE DEF I
    <3> QED BY <1>3, <1>6, <3>1, <3>2
  <2>2. \A i \in 1 .. Len(s) : s[i] \in Kept
    BY <1>4, <2>1
  <2>3. s \in Seq(Kept)
    BY <1>1, <2>2
  <2> QED BY <1>6, <2>3 DEF Pushed
<1>7. CASE req.ended /\ FirstRefused(req) # 0
  <2> DEFINE k == FirstRefused(req)
             t == SubSeq(s, 1, k - 1)
  <2>1. I # {} /\ k = Min(I)
    BY <1>3, <1>7
  <2>2. k \in 1 .. Len(s) /\ \A y \in I : k <= y
    <3>1. I \in SUBSET Nat
      OBVIOUS
    <3> QED BY <2>1, <3>1, MinOfNaturals
  <2>3. Pushed(req) = t
    BY <1>7 DEF Pushed
  <2> HIDE DEF k
  <2>4. t \in Seq(AllCommands) /\ Len(t) = k - 1 /\ \A i \in 1 .. k - 1 : t[i] = s[i]
    BY <1>1, <2>2
  <2>5. \A i \in 1 .. k - 1 : i \in 1 .. Len(s) /\ i \notin I
    <3> TAKE i \in 1 .. k - 1
    <3>1. i \in 1 .. Len(s) /\ ~(k <= i)
      BY <1>1, <2>2
    <3> QED BY <2>2, <3>1
  <2>6. \A i \in 1 .. k - 1 : t[i] \in Kept
    BY <1>4, <2>4, <2>5
  <2> HIDE DEF t
  <2>7. t \in Seq(Kept)
    BY <2>2, <2>4, <2>6
  <2> QED BY <2>3, <2>7
<1> QED BY <1>5, <1>6, <1>7

LEMMA OneCounted ==
  ASSUME NEW S, Cardinality(S) = 1
  PROVE  S # {}
<1>1. Cardinality({}) = 0
  BY FS_EmptySet
<1> QED BY <1>1

(* The lesson of a command that has been accepted.                             *)
LEMMA LessonType ==
  ASSUME NEW c \in Kept, c.comand \in {"insert", "remove"}
  PROVE  FieldsOf(c.words) \in [Fields -> Value]
<1> DEFINE words == c.words
<1>1. words \in Seq(AllWords) /\ DOMAIN words = 1 .. Len(words) /\ AllFieldsOnce(words)
  BY KeptWords DEF Accepted
<1>2. \A i \in DOMAIN words : words[i].low \in Value
  BY KeptWords, LessonAssumption
<1> HIDE DEF words
<1>3. ASSUME NEW f \in Fields
      PROVE  words[SelectInSeq(words, LAMBDA w : w.pole = f)].low \in Value
  <2> DEFINE I == {i \in 1 .. Len(words) : words[i].pole = f}
  <2>1. Cardinality(I) = 1
    BY <1>1 DEF AllFieldsOnce, Quantify
  <2>2. I # {}
    <3>1. ASSUME NEW S, S = I
          PROVE  S # {}
      BY <2>1, <3>1, OneCounted
    <3> QED BY <3>1
  <2>3. I \in SUBSET Nat
    OBVIOUS
  <2>4. Min(I) \in 1 .. Len(words)
    BY <2>2, <2>3, MinOfNaturals
  <2>5. SelectInSeq(words, LAMBDA w : w.pole = f) = Min(I)
    BY <2>2 DEF SelectInSeq
  <2> HIDE DEF I
  <2> QED BY <1>1, <1>2, <2>4, <2>5
<1> QED BY <1>3 DEF FieldsOf, words

LEMMA OrderedType ==
  ASSUME NEW c \in Kept
  PROVE  /\ Ordered(c) \in Nat /\ (c.comand = "insert" => Ordered(c) = 1)
         /\ c.comand \notin {"insert", "generate"} => Ordered(c) = 0
<1>1. c.words \in Seq(AllWords) /\ DOMAIN c.words = 1 .. Len(c.words) /\ Accepted(c)
  BY KeptWords
<1>2. CASE c.comand = "generate" /\ c.words # << >>
  <2>1. 1 \in DOMAIN c.words
    BY <1>1, <1>2
  <2>2. c.words[1].low \in Nat
    BY <1>1, <1>2, <2>1 DEF Accepted, GenerateOk
  <2> QED BY <1>2, <2>2 DEF Ordered
<1>3. CASE ~(c.comand = "generate" /\ c.words # << >>)
  BY <1>3 DEF Ordered
<1> QED BY <1>2, <1>3

(* How many records a script asks for.                                         *)
LEMMA SameSequence ==
  ASSUME NEW V, NEW s \in Seq(V), NEW t \in Seq(V), Len(s) = Len(t), \A i \in 1 .. Len(s) : s[i] = t[i]
  PROVE  s = t
OBVIOUS

LEMMA AddsConcat ==
  ASSUME NEW s \in Seq(Kept), NEW t \in Seq(Kept)
  PROVE  Adds(s) \in Nat /\ Adds(t) \in Nat /\ Adds(s \o t) = Adds(s) + Adds(t)
<1> DEFINE N(u) == [i \in DOMAIN u |-> Ordered(u[i])]
<1>1. ASSUME NEW u \in Seq(Kept)
      PROVE  N(u) \in Seq(Nat) /\ Len(N(u)) = Len(u) /\ \A i \in 1 .. Len(u) : N(u)[i] = Ordered(u[i])
  <2>1. DOMAIN u = 1 .. Len(u) /\ Len(u) \in Nat /\ \A i \in 1 .. Len(u) : u[i] \in Kept
    OBVIOUS
  <2>2. \A i \in 1 .. Len(u) : Ordered(u[i]) \in Nat
    BY <2>1, OrderedType
  <2> QED BY <2>1, <2>2
<1>2. Adds(s) = Total(N(s)) /\ Adds(t) = Total(N(t)) /\ Adds(s \o t) = Total(N(s \o t))
  BY DEF Adds
<1> HIDE DEF N
<1>3. N(s \o t) = N(s) \o N(t)
  <2> DEFINE u == s \o t
  <2>1. /\ u \in Seq(Kept) /\ Len(s) \in Nat /\ Len(t) \in Nat /\ Len(u) = Len(s) + Len(t)
        /\ \A i \in 1 .. Len(u) : u[i] = IF i <= Len(s) THEN s[i] ELSE t[i - Len(s)]
    OBVIOUS
  <2> HIDE DEF u
  <2> DEFINE a == N(s)
             b == N(t)
             c == N(u)
  <2>2. a \in Seq(Nat) /\ Len(a) = Len(s) /\ \A i \in 1 .. Len(s) : a[i] = Ordered(s[i])
    BY <1>1
  <2>3. b \in Seq(Nat) /\ Len(b) = Len(t) /\ \A i \in 1 .. Len(t) : b[i] = Ordered(t[i])
    BY <1>1
  <2>4. c \in Seq(Nat) /\ Len(c) = Len(u) /\ \A i \in 1 .. Len(u) : c[i] = Ordered(u[i])
    BY <1>1, <2>1
  <2> HIDE DEF a, b, c
  <2>5. /\ a \o b \in Seq(Nat) /\ Len(a \o b) = Len(u)
        /\ \A i \in 1 .. Len(u) : (a \o b)[i] = IF i <= Len(s) THEN a[i] ELSE b[i - Len(s)]
    BY <2>1, <2>2, <2>3, SMTT(30)
  <2>6. \A i \in 1 .. Len(u) : c[i] = (a \o b)[i]
    <3> TAKE i \in 1 .. Len(u)
    <3>1. CASE i <= Len(s)
      <4>1. i \in 1 .. Len(s)
        BY <2>1, <3>1
      <4> QED BY <2>1, <2>2, <2>4, <2>5, <3>1, <4>1
    <3>2. CASE ~(i <= Len(s))
      <4>1. i - Len(s) \in 1 .. Len(t)
        BY <2>1, <3>2
      <4> QED BY <2>1, <2>3, <2>4, <2>5, <3>2, <4>1
    <3> QED BY <3>1, <3>2
  <2>7. c = a \o b
    <3> DEFINE d == a \o b
    <3>1. d \in Seq(Nat) /\ Len(c) = Len(d) /\ \A i \in 1 .. Len(c) : c[i] = d[i]
      BY <2>4, <2>5, <2>6
    <3> HIDE DEF d
    <3>2. c = d
      BY <2>4, <3>1, SameSequence
    <3> QED BY <3>2 DEF d
  <2> QED BY <2>7 DEF a, b, c, u
<1>4. N(s) \in Seq(Nat) /\ N(t) \in Seq(Nat)
  BY <1>1
<1> QED BY <1>2, <1>3, <1>4, TotalConcat

LEMMA AddsOfFew ==
  /\ Adds(<< >>) = 0
  /\ \A c \in Kept : Adds(<< c >>) = Ordered(c)
<1>1. Adds(<< >>) = 0
  <2>1. [i \in DOMAIN << >> |-> Ordered((<< >>)[i])] = << >>
    OBVIOUS
  <2> QED BY <2>1, TotalOfFew DEF Adds
<1>2. ASSUME NEW c \in Kept PROVE Adds(<< c >>) = Ordered(c)
  <2>1. [i \in DOMAIN << c >> |-> Ordered((<< c >>)[i])] = << Ordered(c) >>
    OBVIOUS
  <2> QED BY <2>1, OrderedType, TotalOfFew DEF Adds
<1> QED BY <1>1, <1>2

LEMMA Joined ==
  ASSUME NEW V, NEW a \in Seq(V), NEW b \in Seq(V)
  PROVE  /\ a \o b \in Seq(V) /\ Len(a \o b) = Len(a) + Len(b)
         /\ \A i \in 1 .. Len(a) + Len(b) : (a \o b)[i] = IF i <= Len(a) THEN a[i] ELSE b[i - Len(a)]
OBVIOUS

LEMMA HeadAndRest ==
  ASSUME NEW V, NEW z \in Seq(V), NEW k \in 1 .. Len(z)
  PROVE  SubSeq(z, k, Len(z)) = << z[k] >> \o SubSeq(z, k + 1, Len(z))
<1> DEFINE n == Len(z)
           s == SubSeq(z, k, n)
           t == SubSeq(z, k + 1, n)
           one == << z[k] >>
<1>1. n \in Nat /\ k \in Nat /\ k >= 1 /\ k <= n /\ z[k] \in V
  OBVIOUS
<1>2. s \in Seq(V) /\ Len(s) = n - k + 1 /\ \A i \in 1 .. n - k + 1 : s[i] = z[k + i - 1]
  BY <1>1
<1>3. t \in Seq(V) /\ Len(t) = n - k /\ \A i \in 1 .. n - k : t[i] = z[k + i]
  BY <1>1
<1>4. one \in Seq(V) /\ Len(one) = 1 /\ one[1] = z[k]
  BY <1>1
<1> HIDE DEF n, s, t, one
<1> DEFINE u == one \o t
<1>5. /\ u \in Seq(V) /\ Len(u) = Len(one) + Len(t)
      /\ \A i \in 1 .. Len(one) + Len(t) : u[i] = IF i <= Len(one) THEN one[i] ELSE t[i - Len(one)]
  BY <1>3, <1>4, Joined
<1> HIDE DEF u
<1>6. \A i \in 1 .. Len(s) : s[i] = u[i]
  <2> TAKE i \in 1 .. Len(s)
  <2>1. i \in 1 .. n - k + 1 /\ i \in 1 .. Len(one) + Len(t)
    BY <1>1, <1>2, <1>3, <1>4
  <2>2. CASE i = 1
    <3>1. s[1] = z[k + 1 - 1] /\ k + 1 - 1 = k
      BY <1>1, <1>2, <2>1, <2>2
    <3> QED BY <1>4, <1>5, <2>1, <2>2, <3>1
  <2>3. CASE i # 1
    <3>1. i - 1 \in 1 .. n - k /\ k + (i - 1) = k + i - 1 /\ ~(i <= 1)
      BY <1>1, <2>1, <2>3
    <3> QED BY <1>2, <1>3, <1>4, <1>5, <2>1, <3>1
  <2> QED BY <2>2, <2>3
<1>7. Len(s) = Len(u)
  BY <1>1, <1>2, <1>3, <1>4, <1>5
<1>8. s = u
  BY <1>2, <1>5, <1>6, <1>7, SameSequence
<1> QED BY <1>8 DEF n, s, t, one, u

(* What a script asks for from its k-th command on.                            *)
From(commands, k) == Adds(SubSeq(commands, k, Len(commands)))

LEMMA RestOfScript ==
  ASSUME NEW z \in Seq(Kept), NEW k \in Nat \ {0}
  PROVE  /\ From(z, k) \in Nat
         /\ k > Len(z) => From(z, k) = 0
         /\ k <= Len(z) => From(z, k) = Ordered(z[k]) + From(z, k + 1) /\ From(z, k + 1) \in Nat
<1>1. CASE k > Len(z)
  <2>1. SubSeq(z, k, Len(z)) = << >>
    BY <1>1
  <2>2. From(z, k) = 0
    BY <2>1, AddsOfFew DEF From
  <2> QED BY <1>1, <2>2
<1>2. CASE k <= Len(z)
  <2> DEFINE s == SubSeq(z, k, Len(z))
             t == SubSeq(z, k + 1, Len(z))
             one == << z[k] >>
  <2>1. k \in 1 .. Len(z) /\ z[k] \in Kept
    BY <1>2
  <2>2. t \in Seq(Kept) /\ one \in Seq(Kept)
    BY <2>1
  <2>3. s = one \o t
    BY <2>1, HeadAndRest
  <2>4. Adds(one) = Ordered(z[k])
    BY <2>1, AddsOfFew
  <2>5. From(z, k) = Adds(s) /\ From(z, k + 1) = Adds(t)
    BY DEF From
  <2> HIDE DEF s, t, one
  <2>6. Adds(s) = Adds(one) + Adds(t) /\ Adds(t) \in Nat /\ Adds(one) \in Nat
    BY <2>2, <2>3, AddsConcat
  <2> QED BY <1>2, <2>4, <2>5, <2>6
<1> QED BY <1>1, <1>2

-------------------------------------------------------------------------------
(* The base: records in the order of their numbers, and maps that agree.       *)
Base ==
  /\ file \in Seq([Fields -> Value]) /\ inf \in Seq(Records) /\ mp \in Maps /\ global_index \in Nat
  /\ InOrder(inf) /\ Agrees(mp, Elements(inf))
  /\ \A i \in 1 .. Len(inf) : inf[i].index < global_index

(* A selection, against the records and the next number: a copy of a record    *)
(* that has been removed stays as it is, for its number is not given again.    *)
Copied(copies, records, next) ==
  /\ copies \in Seq(Records) /\ InOrder(copies)
  /\ \A i \in 1 .. Len(copies) :
       /\ copies[i].index < next
       /\ \A j \in 1 .. Len(records) : records[j].index = copies[i].index => records[j] = copies[i]

Copies ==
  /\ ses \in Seq(Seq(Records))
  /\ \A n \in 1 .. Len(ses) : Copied(ses[n], inf, global_index)

(* What is to be executed, of what has been accepted.                          *)
Script ==
  /\ zapros \in Seq(Kept)
  /\ serving \in [fd : Fd \cup {NoFd}, at : Nat \ {0}, ok : BOOLEAN]
  /\ ~serving.ok => serving.at = 1

Stopped == up \/ (ses = << >> /\ zapros = << >> /\ serving = Idle)

DataInv == Base /\ Copies /\ Script /\ Stopped

LEMMA Nothing ==
  ASSUME NEW records, records = << >>, NEW maps, maps = NoMaps
  PROVE  /\ records \in Seq(Records) /\ Len(records) = 0 /\ InOrder(records) /\ Elements(records) = {}
         /\ maps \in Maps /\ Agrees(maps, Elements(records))
<1>1. maps \in Maps
  BY DEF NoMaps, Maps
<1>2. records \in Seq(Records) /\ Len(records) = 0 /\ InOrder(records) /\ Elements(records) = {}
  BY DEF Elements, InOrder
<1>3. ASSUME NEW f \in Fields, NEW v \in Value
      PROVE  Holds(maps[f][v], {}, f, v)
  <2>1. maps[f][v] = << >> /\ Len(<< >>) = 0
    BY DEF NoMaps
  <2> QED BY <2>1 DEF Holds, Rising, RisesTo
<1> QED BY <1>1, <1>2, <1>3 DEF Agrees

LEMMA IdleType == Idle \in [fd : Fd \cup {NoFd}, at : Nat \ {0}, ok : BOOLEAN] /\ ~Idle.ok /\ Idle.at = 1
BY DEF Idle

LEMMA NoData ==
  ASSUME file \in Seq([Fields -> Value]), inf = << >>, mp = NoMaps, global_index = 0, ses = << >>,
         zapros = << >>, serving = Idle
  PROVE  DataInv
<1>1. ses \in Seq(Seq(Records)) /\ zapros \in Seq(Kept) /\ Len(<< >>) = 0
  OBVIOUS
<1>2. Base
  <2>1. /\ inf \in Seq(Records) /\ Len(inf) = 0 /\ InOrder(inf)
        /\ mp \in Maps /\ Agrees(mp, Elements(inf))
    BY Nothing, Zenon
  <2> QED BY <2>1 DEF Base
<1>3. Copies
  BY <1>1 DEF Copies
<1>4. Script
  BY <1>1, IdleType DEF Script
<1> QED BY <1>2, <1>3, <1>4 DEF DataInv, Stopped

LEMMA EndsData == DataInv /\ Ends => DataInv'
<1> SUFFICES ASSUME DataInv, Ends PROVE DataInv'
  OBVIOUS
<1>1. file' = file /\ inf' = << >> /\ mp' = NoMaps /\ global_index' = 0 /\ ses' = << >> /\ zapros' = << >> /\ serving' = Idle
  BY DEF Ends
<1>2. file \in Seq([Fields -> Value])
  BY DEF DataInv, Base
<1>3. ses' \in Seq(Seq(Records)) /\ zapros' \in Seq(Kept) /\ Len(<< >>) = 0
  BY <1>1
<1>4. Base'
  <2>1. /\ inf' \in Seq(Records) /\ Len(inf') = 0 /\ InOrder(inf')
        /\ mp' \in Maps /\ Agrees(mp', Elements(inf'))
    BY <1>1, Nothing, Zenon
  <2> QED BY <1>1, <1>2, <2>1 DEF Base
<1>5. Copies'
  BY <1>1, <1>3 DEF Copies
<1>6. Script'
  BY <1>1, <1>3, IdleType DEF Script
<1> QED BY <1>1, <1>4, <1>5, <1>6 DEF DataInv, Stopped

(* Selections are not disturbed by records of new numbers, nor by removals.    *)
LEMMA CopiesStay ==
  ASSUME Copies, ses' = ses, global_index \in Nat, global_index' \in Nat, global_index' >= global_index,
         inf' \in Seq(Records),
         \A j \in 1 .. Len(inf') : inf'[j].index >= global_index \/ \E i \in 1 .. Len(inf) : inf[i] = inf'[j]
  PROVE  Copies'
<1> DEFINE records == inf'
           next == global_index'
<1>1. records \in Seq(Records) /\ next \in Nat /\ next >= global_index
  OBVIOUS
<1>2. \A j \in 1 .. Len(records) : records[j].index >= global_index \/ \E i \in 1 .. Len(inf) : inf[i] = records[j]
  OBVIOUS
<1> HIDE DEF records, next
<1>3. ASSUME NEW n \in 1 .. Len(ses)
      PROVE  Copied(ses[n], records, next)
  <2> DEFINE copies == ses[n]
  <2>1. Copied(copies, inf, global_index)
    BY DEF Copies
  <2> HIDE DEF copies
  <2>2. ASSUME NEW i \in 1 .. Len(copies)
        PROVE  /\ copies[i].index < next
               /\ \A j \in 1 .. Len(records) : records[j].index = copies[i].index => records[j] = copies[i]
    <3>1. copies[i] \in Records
      BY <2>1 DEF Copied
    <3>2. copies[i].index \in Nat /\ copies[i].index < global_index
      BY <2>1, <3>1 DEF Copied, Records
    <3>3. ASSUME NEW j \in 1 .. Len(records), records[j].index = copies[i].index
          PROVE  records[j] = copies[i]
      <4>1. ~(records[j].index >= global_index)
        BY <3>2, <3>3
      <4>2. PICK k \in 1 .. Len(inf) : inf[k] = records[j]
        BY <1>2, <4>1
      <4> QED BY <2>1, <3>3, <4>2 DEF Copied
    <3> QED BY <1>1, <3>2, <3>3
  <2> QED BY <2>1, <2>2 DEF Copied, copies
<1>4. Copies'
  BY <1>3 DEF Copies, records, next
<1> QED BY <1>4

(* Records come at the end, under the numbers from global_index on.            *)
LEMMA AddRecordsData ==
  ASSUME Base, Copies, NEW lessons \in Seq([Fields -> Value]), AddRecords(lessons)
  PROVE  Base' /\ Copies'
<1> DEFINE new == Indexed(lessons, global_index)
           all == inf \o new
           maps == AddAll(mp, new)
<1>1. inf \in Seq(Records) /\ mp \in Maps /\ global_index \in Nat /\ Len(inf) \in Nat /\ Len(lessons) \in Nat
  BY DEF Base
<1>2. /\ new \in Seq(Records) /\ Len(new) = Len(lessons) /\ InOrder(new)
      /\ \A i \in 1 .. Len(new) : new[i].index = global_index + i - 1
  BY <1>1, IndexedInOrder
<1>3. inf' = all /\ mp' = maps /\ global_index' = global_index + Len(lessons) /\ ses' = ses /\ file' = file
  BY DEF AddRecords
<1> HIDE DEF new, all, maps
<1>4. \A i \in 1 .. Len(inf) : inf[i].index \in Nat /\ inf[i].index < global_index
  <2>1. \A i \in 1 .. Len(inf) : inf[i] \in Records
    BY <1>1
  <2> QED BY <2>1 DEF Base, Records
<1>5. \A i \in 1 .. Len(inf) : \A j \in 1 .. Len(new) : inf[i].index < new[j].index
  <2> TAKE i \in 1 .. Len(inf)
  <2> TAKE j \in 1 .. Len(new)
  <2>1. inf[i].index \in Nat /\ inf[i].index < global_index /\ new[j].index = global_index + j - 1 /\ j \in Nat /\ j >= 1
    BY <1>2, <1>4
  <2> QED BY <1>1, <2>1
<1>6. InOrder(inf)
  BY DEF Base
<1>7. all \in Seq(Records) /\ InOrder(all) /\ Elements(all) = Elements(inf) \cup Elements(new)
  BY <1>1, <1>2, <1>5, <1>6, ConcatInOrder DEF all
<1>8. maps \in Maps /\ Agrees(maps, Elements(inf) \cup Elements(new))
  <2> DEFINE R == Elements(inf)
  <2>1. R \in SUBSET Records
    BY <1>1, <1>6, OrderedAreDistinct
  <2>2. Agrees(mp, R)
    BY DEF Base
  <2>3. \A r \in R : \A i \in 1 .. Len(new) : r.index < new[i].index
    BY <1>5 DEF Elements
  <2> HIDE DEF R
  <2>4. AddAll(mp, new) \in Maps /\ Agrees(AddAll(mp, new), R \cup Elements(new))
    BY <1>1, <1>2, <2>1, <2>2, <2>3, AddAllAgrees
  <2> QED BY <2>4 DEF maps, R
<1>9. /\ Len(all) = Len(inf) + Len(new)
      /\ \A i \in 1 .. Len(all) : all[i] = IF i <= Len(inf) THEN inf[i] ELSE new[i - Len(inf)]
  <2>1. inf \in Seq(Records) /\ new \in Seq(Records)
    BY <1>1, <1>2
  <2> DEFINE sum == Len(inf) + Len(new)
  <2>2. /\ Len(all) = sum
        /\ \A i \in 1 .. sum : all[i] = IF i <= Len(inf) THEN inf[i] ELSE new[i - Len(inf)]
    BY <2>1, Joined, Zenon DEF all
  <2> QED BY <2>2
<1>10. ASSUME NEW i \in 1 .. Len(all)
       PROVE  /\ all[i].index < global_index + Len(lessons)
              /\ all[i].index >= global_index \/ \E k \in 1 .. Len(inf) : inf[k] = all[i]
  <2>1. CASE i <= Len(inf)
    <3>1. i \in 1 .. Len(inf) /\ all[i] = inf[i]
      BY <1>1, <1>9, <2>1
    <3>2. inf[i].index \in Nat /\ inf[i].index < global_index
      BY <1>4, <3>1
    <3> QED BY <1>1, <3>1, <3>2
  <2>2. CASE ~(i <= Len(inf))
    <3>1. i - Len(inf) \in 1 .. Len(new) /\ all[i] = new[i - Len(inf)]
      BY <1>1, <1>2, <1>9, <2>2
    <3> DEFINE k == i - Len(inf)
    <3>2. new[k].index = global_index + k - 1 /\ k \in Nat /\ k >= 1 /\ k <= Len(lessons)
      BY <1>1, <1>2, <3>1
    <3> HIDE DEF k
    <3>3. all[i].index = global_index + k - 1
      BY <3>1, <3>2 DEF k
    <3> QED BY <1>1, <3>2, <3>3
  <2> QED BY <2>1, <2>2
<1>11. Base'
  BY <1>1, <1>3, <1>7, <1>8, <1>10 DEF Base
<1>12. Copies'
  <2>1. inf' \in Seq(Records) /\ global_index' \in Nat /\ global_index' >= global_index
    BY <1>1, <1>3, <1>7
  <2>2. \A j \in 1 .. Len(inf') : inf'[j].index >= global_index \/ \E i \in 1 .. Len(inf) : inf[i] = inf'[j]
    BY <1>3, <1>10
  <2> QED BY <1>1, <1>3, <2>1, <2>2, CopiesStay
<1> QED BY <1>11, <1>12

(* Removed records leave the base and, each its own index, the maps.           *)
LEMMA RemoveLessonData ==
  ASSUME Base, Copies, RemoveLesson
  PROVE  Base' /\ Copies'
<1> DEFINE dead == {i \in DOMAIN inf : inf[i].index \in intersection(FieldsOf(Words))}
           kept == DOMAIN inf \ dead
           left == Picked(inf, kept)
           gone == Picked(inf, dead)
           maps == DeleteAll(mp, gone)
<1>1. inf \in Seq(Records) /\ DOMAIN inf = 1 .. Len(inf) /\ mp \in Maps /\ global_index \in Nat /\ InOrder(inf)
  BY DEF Base
<1>2. inf' = left /\ mp' = maps /\ global_index' = global_index /\ ses' = ses /\ file' = file
  BY DEF RemoveLesson
<1>3. dead \in SUBSET (1 .. Len(inf)) /\ kept \in SUBSET (1 .. Len(inf))
  BY <1>1
<1>4. kept = (1 .. Len(inf)) \ dead
  BY <1>1
<1> HIDE DEF dead, kept
<1>5. /\ left \in Seq(Records) /\ InOrder(left)
      /\ \A i \in 1 .. Len(left) : \E k \in kept : left[i] = inf[k]
      /\ \A k \in kept : \E i \in 1 .. Len(left) : left[i] = inf[k]
  BY <1>1, <1>3, PickedInOrder
<1>6. /\ gone \in Seq(Records) /\ InOrder(gone)
      /\ \A i \in 1 .. Len(gone) : \E k \in dead : gone[i] = inf[k]
      /\ \A k \in dead : \E i \in 1 .. Len(gone) : gone[i] = inf[k]
  BY <1>1, <1>3, PickedInOrder
<1> HIDE DEF left, gone, maps
<1>7. \A i, j \in 1 .. Len(inf) : inf[i] = inf[j] => i = j
  BY <1>1, OrderedAreDistinct
<1>8. Elements(left) = Elements(inf) \ Elements(gone)
  <2>1. ASSUME NEW r \in Elements(left)
        PROVE  r \in Elements(inf) /\ r \notin Elements(gone)
    <3>1. PICK i \in 1 .. Len(left) : r = left[i]
      BY DEF Elements
    <3>2. PICK k \in kept : left[i] = inf[k]
      BY <1>5
    <3>3. ASSUME r \in Elements(gone)
          PROVE  FALSE
      <4>1. PICK j \in 1 .. Len(gone) : r = gone[j]
        BY <3>3 DEF Elements
      <4>2. PICK l \in dead : gone[j] = inf[l]
        BY <1>6
      <4>3. l \in 1 .. Len(inf)
        BY <1>3
      <4> QED BY <1>4, <1>7, <3>1, <3>2, <4>1, <4>2, <4>3
    <3> QED BY <1>4, <3>1, <3>2, <3>3 DEF Elements
  <2>2. ASSUME NEW r \in Elements(inf), r \notin Elements(gone)
        PROVE  r \in Elements(left)
    <3>1. PICK k \in 1 .. Len(inf) : r = inf[k]
      BY DEF Elements
    <3>2. k \notin dead
      BY <1>6, <2>2, <3>1 DEF Elements
    <3> QED BY <1>4, <1>5, <3>1, <3>2 DEF Elements
  <2> QED BY <2>1, <2>2
<1>9. maps \in Maps /\ Agrees(maps, Elements(left))
  <2> DEFINE R == Elements(inf)
  <2>1. R \in SUBSET Records /\ Distinct(R)
    BY <1>1, OrderedAreDistinct
  <2>2. Agrees(mp, R)
    BY DEF Base
  <2>3. Elements(gone) \subseteq R
    <3>1. \A i \in 1 .. Len(gone) : \E k \in 1 .. Len(inf) : gone[i] = inf[k]
      BY <1>3, <1>6
    <3> QED BY <3>1 DEF Elements
  <2> HIDE DEF R
  <2>4. DeleteAll(mp, gone) \in Maps /\ Agrees(DeleteAll(mp, gone), R \ Elements(gone))
    BY <1>1, <1>6, <2>1, <2>2, <2>3, DeleteAllAgrees
  <2> QED BY <1>8, <2>4 DEF maps, R
<1>10. Base'
  <2>1. \A i \in 1 .. Len(left) : left[i].index < global_index
    <3> TAKE i \in 1 .. Len(left)
    <3>1. PICK k \in kept : left[i] = inf[k]
      BY <1>5
    <3> QED BY <1>4, <3>1 DEF Base
  <2>2. file \in Seq([Fields -> Value])
    BY DEF Base
  <2> QED BY <1>1, <1>2, <1>5, <1>9, <2>1, <2>2 DEF Base
<1>11. Copies'
  <2>1. inf' \in Seq(Records) /\ global_index' \in Nat /\ global_index' >= global_index
    BY <1>1, <1>2, <1>5
  <2>2. \A j \in 1 .. Len(inf') : inf'[j].index >= global_index \/ \E i \in 1 .. Len(inf) : inf[i] = inf'[j]
    <3>1. \A j \in 1 .. Len(left) : \E i \in 1 .. Len(inf) : inf[i] = left[j]
      <4> TAKE j \in 1 .. Len(left)
      <4>1. PICK k \in kept : left[j] = inf[k]
        BY <1>5
      <4> QED BY <1>4, <4>1
    <3> QED BY <1>2, <3>1
  <2> QED BY <1>1, <1>2, <2>1, <2>2, CopiesStay
<1> QED BY <1>10, <1>11

(* The load cuts each line and numbers the records from 0.                     *)
LEMMA StartData ==
  ASSUME DataInv, Start
  PROVE  DataInv'
<1> DEFINE lines == [i \in DOMAIN file |-> CutLine(file[i])]
           new == Indexed(lines, 0)
           maps == AddAll(NoMaps, new)
<1>1. /\ ~up /\ up' = TRUE /\ inf' = new /\ mp' = maps /\ global_index' = Len(lines)
      /\ file' = file /\ ses' = ses /\ zapros' = zapros /\ serving' = serving
  BY DEF Start
<1>2. /\ ses = << >> /\ file \in Seq([Fields -> Value]) /\ zapros \in Seq(Kept)
      /\ serving = Idle
  BY <1>1 DEF DataInv, Stopped, Base, Script
<1>3. lines \in Seq([Fields -> Value]) /\ Len(lines) = Len(file) /\ Len(file) \in Nat
  <2>1. DOMAIN file = 1 .. Len(file) /\ Len(file) \in Nat /\ \A i \in 1 .. Len(file) : file[i] \in [Fields -> Value]
    BY <1>2
  <2>2. \A v \in Value : (IF v = 0 THEN 0 ELSE v - 1) \in Value
    BY ValueAssumption
  <2>3. ASSUME NEW lesson \in [Fields -> Value]
        PROVE  CutLine(lesson) \in [Fields -> Value]
    BY <2>2 DEF CutLine, Fields
  <2>4. \A i \in 1 .. Len(file) : CutLine(file[i]) \in [Fields -> Value]
    BY <2>1, <2>3
  <2> QED BY <2>1, <2>4
<1> HIDE DEF lines
<1>4. /\ new \in Seq(Records) /\ Len(new) = Len(lines) /\ InOrder(new)
      /\ \A i \in 1 .. Len(new) : new[i].index = 0 + i - 1
  BY <1>3, IndexedInOrder
<1> HIDE DEF new
<1>5. maps \in Maps /\ Agrees(maps, Elements(new))
  <2> DEFINE R == Elements(<< >>)
  <2>1. R = {}
    BY Nothing, Zenon
  <2>2. NoMaps \in Maps /\ Agrees(NoMaps, R)
    BY Nothing, Zenon
  <2> HIDE DEF R
  <2>3. AddAll(NoMaps, new) \in Maps /\ Agrees(AddAll(NoMaps, new), R \cup Elements(new))
    BY <1>4, <2>1, <2>2, AddAllAgrees
  <2>4. R \cup Elements(new) = Elements(new)
    BY <2>1
  <2> QED BY <2>3, <2>4
<1> HIDE DEF maps
<1>6. Base'
  BY <1>1, <1>2, <1>3, <1>4, <1>5 DEF Base
<1>7. Copies'
  <2>1. ses' = << >>
    BY <1>1, <1>2
  <2>2. ses' \in Seq(Seq(Records)) /\ Len(ses') = 0
    BY <2>1
  <2> QED BY <2>2 DEF Copies
<1>8. Script'
  BY <1>1 DEF DataInv, Script
<1> QED BY <1>1, <1>6, <1>7, <1>8 DEF DataInv, Stopped

(* A selection takes records of the base, or of the selection before it.       *)
LEMMA ChosenType ==
  ASSUME NEW records \in Seq(Records), InOrder(records), NEW indexes
  PROVE  LET copies == Chosen(records, indexes)
         IN /\ copies \in Seq(Records) /\ InOrder(copies)
            /\ \A i \in 1 .. Len(copies) : \E k \in 1 .. Len(records) : copies[i] = records[k]
<1> DEFINE K == {i \in DOMAIN records : records[i].index \in indexes}
           copies == Picked(records, K)
<1>1. K \in SUBSET (1 .. Len(records))
  OBVIOUS
<1> HIDE DEF K
<1>2. copies \in Seq(Records) /\ InOrder(copies) /\ \A i \in 1 .. Len(copies) : \E k \in K : copies[i] = records[k]
  BY <1>1, PickedInOrder
<1> HIDE DEF copies
<1>3. \A i \in 1 .. Len(copies) : \E k \in 1 .. Len(records) : copies[i] = records[k]
  BY <1>1, <1>2
<1> QED BY <1>2, <1>3 DEF Chosen, copies, K

LEMMA FromBase ==
  ASSUME Base, NEW indexes
  PROVE  Copied(Chosen(inf, indexes), inf, global_index)
<1> DEFINE copies == Chosen(inf, indexes)
<1>1. inf \in Seq(Records) /\ InOrder(inf)
  BY DEF Base
<1>2. /\ copies \in Seq(Records) /\ InOrder(copies)
      /\ \A i \in 1 .. Len(copies) : \E k \in 1 .. Len(inf) : copies[i] = inf[k]
  BY <1>1, ChosenType
<1> HIDE DEF copies
<1>3. ASSUME NEW i \in 1 .. Len(copies)
      PROVE  /\ copies[i].index < global_index
             /\ \A j \in 1 .. Len(inf) : inf[j].index = copies[i].index => inf[j] = copies[i]
  <2>1. PICK k \in 1 .. Len(inf) : copies[i] = inf[k]
    BY <1>2
  <2>2. \A j \in 1 .. Len(inf) : inf[j].index = inf[k].index => j = k
    BY <1>1, OrderedAreDistinct
  <2> QED BY <2>1, <2>2 DEF Base
<1> QED BY <1>2, <1>3 DEF Copied, copies

LEMMA FromCopies ==
  ASSUME NEW before, NEW records, NEW next, Copied(before, records, next), NEW indexes
  PROVE  Copied(Chosen(before, indexes), records, next)
<1> DEFINE copies == Chosen(before, indexes)
<1>1. before \in Seq(Records) /\ InOrder(before)
  BY DEF Copied
<1>2. /\ copies \in Seq(Records) /\ InOrder(copies)
      /\ \A i \in 1 .. Len(copies) : \E k \in 1 .. Len(before) : copies[i] = before[k]
  BY <1>1, ChosenType
<1> HIDE DEF copies
<1>3. ASSUME NEW i \in 1 .. Len(copies)
      PROVE  /\ copies[i].index < next
             /\ \A j \in 1 .. Len(records) : records[j].index = copies[i].index => records[j] = copies[i]
  <2>1. PICK k \in 1 .. Len(before) : copies[i] = before[k]
    BY <1>2
  <2> QED BY <2>1 DEF Copied
<1> QED BY <1>2, <1>3 DEF Copied, copies

LEMMA Appended ==
  ASSUME NEW V, NEW s \in Seq(V), NEW x \in V, NEW t, t = Append(s, x)
  PROVE  /\ t \in Seq(V) /\ Len(t) = Len(s) + 1
         /\ \A n \in 1 .. Len(s) + 1 : t[n] = IF n <= Len(s) THEN s[n] ELSE x
OBVIOUS

LEMMA SelectionSet ==
  ASSUME Copies, inf' = inf, global_index' = global_index, NEW k, NEW copies, Copied(copies, inf, global_index),
         ses' = [ses EXCEPT ![k] = copies]
  PROVE  Copies'
<1>1. ses \in Seq(Seq(Records)) /\ DOMAIN ses = 1 .. Len(ses) /\ Len(ses) \in Nat /\ copies \in Seq(Records)
  BY DEF Copies, Copied
<1>2. /\ ses' \in Seq(Seq(Records)) /\ Len(ses') = Len(ses)
      /\ \A n \in 1 .. Len(ses) : ses'[n] = IF n = k THEN copies ELSE ses[n]
  <2> DEFINE V == Seq(Records)
  <2>1. ses \in Seq(V) /\ copies \in V
    BY <1>1
  <2> HIDE DEF V
  <2>2. ses \in [1 .. Len(ses) -> V] /\ Len(ses) \in Nat
    BY <2>1
  <2>3. /\ ses' \in [1 .. Len(ses) -> V]
        /\ \A n \in 1 .. Len(ses) : ses'[n] = IF n = k THEN copies ELSE ses[n]
    BY <2>1, <2>2
  <2>4. ses' \in Seq(V) /\ Len(ses') = Len(ses)
    BY <2>2, <2>3
  <2> QED BY <2>3, <2>4 DEF V
<1>4. \A n \in 1 .. Len(ses) : Copied(ses'[n], inf, global_index)
  BY <1>2 DEF Copies
<1> QED BY <1>2, <1>4 DEF Copies

LEMMA SelectionStays ==
  ASSUME Copies, inf' = inf, global_index' = global_index, ses' = ses
  PROVE  Copies'
BY DEF Copies

LEMMA SelectionBegun ==
  ASSUME Copies, inf' = inf, global_index' = global_index, ses' = Append(ses, << >>)
  PROVE  Copies'
<1>1. ses \in Seq(Seq(Records)) /\ Len(ses) \in Nat /\ << >> \in Seq(Records)
  BY DEF Copies
<1>2. /\ ses' \in Seq(Seq(Records)) /\ Len(ses') = Len(ses) + 1
      /\ \A n \in 1 .. Len(ses) + 1 : ses'[n] = IF n <= Len(ses) THEN ses[n] ELSE << >>
  BY <1>1, Appended
<1>3. Copied(<< >>, inf, global_index)
  <2>1. << >> \in Seq(Records) /\ Len(<< >>) = 0
    OBVIOUS
  <2> QED BY <2>1 DEF Copied, InOrder
<1>4. \A n \in 1 .. Len(ses) + 1 : Copied(ses'[n], inf, global_index)
  <2> TAKE n \in 1 .. Len(ses) + 1
  <2>1. CASE n <= Len(ses)
    <3>1. n \in 1 .. Len(ses)
      BY <1>1, <2>1
    <3> QED BY <1>2, <2>1, <3>1 DEF Copies
  <2>2. CASE ~(n <= Len(ses))
    BY <1>2, <1>3, <2>2
  <2> QED BY <2>1, <2>2
<1> QED BY <1>2, <1>4 DEF Copies

-------------------------------------------------------------------------------
LEMMA Moved ==
  ASSUME Script, Onward
  PROVE  /\ serving' \in [fd : Fd \cup {NoFd}, at : Nat \ {0}, ok : BOOLEAN]
         /\ serving'.at = serving.at + 1 /\ serving'.ok = serving.ok /\ serving.at \in Nat \ {0}
BY DEF Script, Onward

LEMMA Current ==
  ASSUME Script, NEW c, At(c)
  PROVE  serving.at \in 1 .. Len(zapros) /\ zapros[serving.at] \in Kept /\ zapros[serving.at].comand = c /\ serving.ok /\ up
<1>1. serving.at \in Nat \ {0} /\ zapros \in Seq(Kept)
  BY DEF Script
<1>2. serving.at <= Len(zapros)
  BY DEF At
<1> QED BY <1>1, <1>2 DEF At

(* Executing a command leaves the rest of the script as it is.                 *)
LEMMA ScriptMoved ==
  ASSUME DataInv, NEW c, At(c), Onward, zapros' = zapros, up' = up
  PROVE  Script' /\ Stopped'
<1>1. Script /\ serving.ok /\ up
  BY DEF DataInv, At
<1>2. /\ serving' \in [fd : Fd \cup {NoFd}, at : Nat \ {0}, ok : BOOLEAN]
      /\ serving'.ok = serving.ok
  BY <1>1, Moved
<1> QED BY <1>1, <1>2 DEF Script, Stopped

LEMMA SaveData == DataInv /\ Save => DataInv'
<1> SUFFICES ASSUME DataInv, Save PROVE DataInv'
  OBVIOUS
<1>1. file' = [i \in DOMAIN inf |-> inf[i].lesson] /\ UNCHANGED << up, inf, mp, global_index, ses, zapros >>
  BY DEF Save
<1>2. file' \in Seq([Fields -> Value])
  <2>1. inf \in Seq(Records) /\ DOMAIN inf = 1 .. Len(inf) /\ Len(inf) \in Nat
    BY DEF DataInv, Base
  <2>2. \A i \in 1 .. Len(inf) : inf[i] \in Records
    BY <2>1
  <2>3. \A i \in 1 .. Len(inf) : inf[i].lesson \in [Fields -> Value]
    BY <2>2 DEF Records
  <2> QED BY <1>1, <2>1, <2>3
<1>3. Base' /\ Copies'
  BY <1>1, <1>2 DEF DataInv, Base, Copies
<1>4. Script' /\ Stopped'
  BY <1>1, ScriptMoved DEF Save
<1> QED BY <1>3, <1>4 DEF DataInv

LEMMA ShowData == DataInv /\ Show => DataInv'
<1> SUFFICES ASSUME DataInv, Show PROVE DataInv'
  OBVIOUS
<1>1. UNCHANGED << up, file, inf, mp, global_index, ses, zapros >>
  BY DEF Show
<1>2. Base' /\ Copies'
  BY <1>1 DEF DataInv, Base, Copies
<1>3. Script' /\ Stopped'
  BY <1>1, ScriptMoved DEF Show
<1> QED BY <1>2, <1>3 DEF DataInv

(* The generator makes as many lessons as were ordered, an insertion one.      *)
LEMMA Added ==
  ASSUME DataInv, Generate \/ InsertLesson
  PROVE  \E lessons \in Seq([Fields -> Value]) :
           AddRecords(lessons) /\ Len(lessons) = Ordered(zapros[serving.at])
<1>1. Script
  BY DEF DataInv
<1>2. CASE Generate
  <2>1. PICK lessons \in [1 .. Ordered(zapros[serving.at]) -> Lesson] : AddRecords(lessons)
    BY <1>2 DEF Generate
  <2>2. zapros[serving.at] \in Kept
    BY <1>1, <1>2, Current DEF Generate
  <2> DEFINE n == Ordered(zapros[serving.at])
  <2>3. n \in Nat
    BY <2>2, OrderedType
  <2> HIDE DEF n
  <2>4. lessons \in [1 .. n -> Lesson]
    BY <2>1 DEF n
  <2>5. lessons \in Seq([Fields -> Value]) /\ Len(lessons) = n
    <3>1. lessons \in [1 .. n -> [Fields -> Value]]
      BY <2>4, ValueAssumption
    <3> QED BY <2>3, <3>1
  <2> QED BY <2>1, <2>5 DEF n
<1>3. CASE InsertLesson
  <2> DEFINE lesson == FieldsOf(Words)
             c == zapros[serving.at]
  <2>1. c \in Kept /\ c.comand = "insert"
    BY <1>1, <1>3, Current DEF InsertLesson
  <2>2. Words = c.words
    BY DEF Words
  <2> HIDE DEF c
  <2>3. FieldsOf(c.words) \in [Fields -> Value]
    BY <2>1, LessonType
  <2>4. lesson \in [Fields -> Value]
    BY <2>2, <2>3
  <2>5. Ordered(c) = 1
    BY <2>1, OrderedType
  <2>6. AddRecords(<< lesson >>)
    BY <1>3 DEF InsertLesson
  <2> HIDE DEF lesson
  <2>7. << lesson >> \in Seq([Fields -> Value]) /\ Len(<< lesson >>) = 1
    BY <2>4
  <2> QED BY <2>5, <2>6, <2>7 DEF c
<1> QED BY <1>2, <1>3

LEMMA AddedData ==
  ASSUME DataInv, Generate \/ InsertLesson
  PROVE  DataInv'
<1>1. PICK lessons \in Seq([Fields -> Value]) : AddRecords(lessons)
  BY Added
<1>2. Base' /\ Copies'
  BY <1>1, AddRecordsData DEF DataInv
<1>3. Script' /\ Stopped'
  <2>1. zapros' = zapros /\ up' = up
    BY <1>1 DEF AddRecords
  <2>2. \E c : At(c) /\ Onward
    BY DEF Generate, InsertLesson
  <2> QED BY <2>1, <2>2, ScriptMoved
<1> QED BY <1>2, <1>3 DEF DataInv

LEMMA RemoveData == DataInv /\ RemoveLesson => DataInv'
<1> SUFFICES ASSUME DataInv, RemoveLesson PROVE DataInv'
  OBVIOUS
<1>1. Base' /\ Copies'
  BY RemoveLessonData DEF DataInv
<1>2. Script' /\ Stopped'
  <2>1. zapros' = zapros /\ up' = up /\ At("remove") /\ Onward
    BY DEF RemoveLesson
  <2> QED BY <2>1, ScriptMoved
<1> QED BY <1>1, <1>2 DEF DataInv

LEMMA SelectData ==
  ASSUME DataInv, Select \/ Reselect
  PROVE  DataInv'
<1>1. Base /\ Copies
  BY DEF DataInv
<1>2. CASE Ends
  BY <1>2, EndsData
<1>3. CASE Select /\ ~Ends
  <2> DEFINE copies == Chosen(inf, association(Criteria))
  <2>1. /\ ses' = [ses EXCEPT ![sok[serving.fd]] = copies] /\ At("select") /\ Onward
        /\ UNCHANGED << up, file, inf, mp, global_index, zapros >>
    BY <1>3 DEF Select
  <2>2. Copied(copies, inf, global_index)
    BY <1>1, FromBase
  <2> HIDE DEF copies
  <2>3. Copies'
    BY <1>1, <2>1, <2>2, SelectionSet
  <2>4. Base'
    BY <1>1, <2>1 DEF Base
  <2>5. Script' /\ Stopped'
    BY <2>1, ScriptMoved
  <2> QED BY <2>3, <2>4, <2>5 DEF DataInv
<1>4. CASE Reselect
  <2> DEFINE k == sok[serving.fd]
             copies == Chosen(ses[k], association(Criteria))
  <2>1. /\ ses' = [ses EXCEPT ![k] = copies] /\ At("reselect") /\ Onward
        /\ UNCHANGED << up, file, inf, mp, global_index, zapros >>
    BY <1>4 DEF Reselect
  <2> HIDE DEF k
  <2>2. DOMAIN ses = 1 .. Len(ses)
    BY <1>1 DEF Copies
  <2>3. Copies'
    <3>1. CASE k \in DOMAIN ses
      <4>1. Copied(ses[k], inf, global_index)
        BY <1>1, <2>2, <3>1 DEF Copies
      <4>2. Copied(copies, inf, global_index)
        BY <4>1, FromCopies
      <4> HIDE DEF copies
      <4> QED BY <1>1, <2>1, <4>2, SelectionSet
    <3>2. CASE k \notin DOMAIN ses
      <4> HIDE DEF copies
      <4>1. ses' = ses
        BY <1>1, <2>1, <3>2 DEF Copies
      <4> QED BY <1>1, <2>1, <4>1, SelectionStays
    <3> QED BY <3>1, <3>2
  <2>4. Base'
    BY <1>1, <2>1 DEF Base
  <2>5. Script' /\ Stopped'
    BY <2>1, ScriptMoved
  <2> QED BY <2>3, <2>4, <2>5 DEF DataInv
<1> QED BY <1>2, <1>3, <1>4

(* The answer empties the script, a refusal leaves it.                         *)
LEMMA AnswerData ==
  ASSUME DataInv, Answer \/ Refuse
  PROVE  DataInv'
<1>1. CASE Ends
  BY <1>1, EndsData
<1>2. CASE ~Ends
  <2>1. /\ UNCHANGED << up, file, inf, mp, global_index, ses >>
        /\ serving' = Idle /\ (zapros' = << >> \/ zapros' = zapros) /\ up
    BY <1>2 DEF Answer, Refuse, SendsMayEnd
  <2>2. Base' /\ Copies'
    BY <2>1 DEF DataInv, Base, Copies
  <2>3. zapros' \in Seq(Kept)
    <3>1. << >> \in Seq(Kept) /\ zapros \in Seq(Kept)
      BY DEF DataInv, Script
    <3> QED BY <2>1, <3>1
  <2>4. Script'
    BY <2>1, <2>3, IdleType DEF Script
  <2> QED BY <2>1, <2>2, <2>4 DEF DataInv, Stopped
<1> QED BY <1>1, <1>2

(* A request appends what is accepted of it, and may begin a session.          *)
LEMMA RequestRule ==
  ASSUME NEW fd \in Fd, Request(fd), ~Ends
  PROVE  \E req \in Requests, ok \in BOOLEAN :
           /\ Free /\ BeginSession(fd) /\ zapros' = zapros \o Pushed(req)
           /\ asked' = asked + Adds(Pushed(req)) /\ serving' = [fd |-> fd, at |-> 1, ok |-> ok]
           /\ UNCHANGED << up, file, inf, mp, global_index, client >>
BY DEF Request

LEMMA RequestData ==
  ASSUME DataInv, NEW fd \in Fd, Request(fd)
  PROVE  DataInv'
<1>1. CASE Ends
  BY <1>1, EndsData
<1>2. CASE ~Ends
  <2>1. PICK req \in Requests, ok \in BOOLEAN :
           /\ Free /\ BeginSession(fd) /\ zapros' = zapros \o Pushed(req)
           /\ serving' = [fd |-> fd, at |-> 1, ok |-> ok]
           /\ UNCHANGED << up, file, inf, mp, global_index >>
    BY <1>2, RequestRule
  <2>2. Copies'
    <3>1. Copies
      BY DEF DataInv
    <3>2. ses' = ses \/ ses' = Append(ses, << >>)
      BY <2>1 DEF BeginSession
    <3> QED BY <2>1, <3>1, <3>2, SelectionStays, SelectionBegun
  <2>3. Base'
    BY <2>1 DEF DataInv, Base
  <2>4. zapros' \in Seq(Kept)
    <3>1. zapros \in Seq(Kept) /\ Pushed(req) \in Seq(Kept)
      BY PushedKept DEF DataInv, Script
    <3> QED BY <2>1, <3>1, Joined
  <2>5. Script'
    BY <2>1, <2>4 DEF Script
  <2>6. up'
    BY <2>1 DEF Free
  <2> QED BY <2>2, <2>3, <2>5, <2>6 DEF DataInv, Stopped
<1> QED BY <1>1, <1>2

LEMMA ConnectionData ==
  ASSUME DataInv, NEW fd \in Fd, Connect(fd) \/ Leave(fd) \/ ClientOut(fd) \/ Stop(fd) \/ Request(fd)
  PROVE  DataInv'
<1>1. CASE Ends
  BY <1>1, EndsData
<1>2. CASE Request(fd)
  BY <1>2, RequestData
<1>3. CASE ~Ends /\ ~Request(fd)
  <2>1. UNCHANGED << up, file, inf, mp, global_index, ses, zapros, serving >>
    BY <1>3 DEF Connect, Leave, ClientOut, Stop, Forget
  <2> QED BY <2>1 DEF DataInv, Base, Copies, Script, Stopped
<1> QED BY <1>1, <1>2, <1>3

LEMMA DataInit == Init => DataInv
<1> SUFFICES ASSUME Init PROVE DataInv
  OBVIOUS
<1>1. file \in Seq([Fields -> Value])
  <2>1. file \in Seq(Lesson) /\ Lesson \subseteq [Fields -> Value]
    BY ValueAssumption DEF Init
  <2> QED BY <2>1
<1> QED BY <1>1, NoData DEF Init

LEMMA DataStep == DataInv /\ [Next]_vars => DataInv'
<1> SUFFICES ASSUME DataInv, [Next]_vars PROVE DataInv'
  OBVIOUS
<1>1. CASE UNCHANGED vars
  BY <1>1 DEF DataInv, Base, Copies, Script, Stopped, vars, process
<1>2. CASE Start
  BY <1>2, StartData
<1>3. CASE Killed
  BY <1>3, EndsData DEF Killed
<1>4. CASE \E fd \in Fd : Connect(fd) \/ Leave(fd) \/ ClientOut(fd) \/ Stop(fd) \/ Request(fd)
  BY <1>4, ConnectionData
<1>5. CASE Save \/ Show
  BY <1>5, SaveData, ShowData
<1>6. CASE Generate \/ InsertLesson
  BY <1>6, AddedData
<1>7. CASE RemoveLesson
  BY <1>7, RemoveData
<1>8. CASE Select \/ Reselect
  BY <1>8, SelectData
<1>9. CASE Answer \/ Refuse
  BY <1>9, AnswerData
<1> QED BY <1>1, <1>2, <1>3, <1>4, <1>5, <1>6, <1>7, <1>8, <1>9 DEF Next

-------------------------------------------------------------------------------
LEMMA DataMaps == DataInv => MapsAgree
<1> SUFFICES ASSUME DataInv PROVE MapsAgree
  OBVIOUS
<1>1. inf \in Seq(Records) /\ InOrder(inf) /\ mp \in Maps /\ Agrees(mp, Elements(inf))
  BY DEF DataInv, Base
<1>2. ASSUME NEW f \in Fields, NEW v \in Value
      PROVE  LET those == Picked(inf, {i \in DOMAIN inf : inf[i].lesson[f] = v})
             IN mp[f][v] = [i \in DOMAIN those |-> those[i].index]
  BY <1>1, AgreedVector, ZenonT(40)
<1> QED BY <1>2, Zenon DEF MapsAgree

LEMMA DataKnown == DataInv => SelectionsKnown
<1> SUFFICES ASSUME DataInv, NEW n \in DOMAIN ses, NEW i \in DOMAIN ses[n]
             PROVE  LET copy == ses[n][i]
                    IN /\ copy.index < global_index
                       /\ \A j \in DOMAIN inf : inf[j].index = copy.index => inf[j] = copy
                       /\ i > 1 => ses[n][i - 1].index < copy.index
  BY Zenon DEF SelectionsKnown
<1> DEFINE copies == ses[n]
<1>1. n \in 1 .. Len(ses) /\ DOMAIN inf = 1 .. Len(inf)
  BY DEF DataInv, Base, Copies
<1>2. Copied(copies, inf, global_index)
  BY <1>1 DEF DataInv, Copies
<1> HIDE DEF copies
<1>3. copies \in Seq(Records) /\ DOMAIN copies = 1 .. Len(copies) /\ Len(copies) \in Nat
  BY <1>2 DEF Copied
<1>4. i \in 1 .. Len(copies)
  BY <1>3 DEF copies
<1>5. copies[i].index < global_index /\ \A j \in DOMAIN inf : inf[j].index = copies[i].index => inf[j] = copies[i]
  BY <1>1, <1>2, <1>4 DEF Copied
<1>6. i > 1 => copies[i - 1].index < copies[i].index
  <2> HAVE i > 1
  <2>1. i - 1 \in 1 .. Len(copies) /\ i - 1 < i
    BY <1>3, <1>4
  <2> QED BY <1>2, <1>4, <2>1 DEF Copied, InOrder
<1> QED BY <1>5, <1>6 DEF copies

(* Every command that is accepted is executed: the next one adds as many       *)
(* records as it asks for.                                                     *)
LEMMA Executed ==
  ASSUME DataInv, RunsOnce, NEW c, At(c), Onward, zapros' = zapros, asked' = asked,
         global_index' = global_index + Ordered(zapros[serving.at])
  PROVE  RunsOnce'
<1> DEFINE k == serving.at
<1>1. Script /\ zapros \in Seq(Kept) /\ global_index \in Nat
  BY DEF DataInv, Script, Base
<1>2. k \in 1 .. Len(zapros) /\ zapros[k] \in Kept
  BY <1>1, Current
<1>3. serving'.at = k + 1 /\ k \in Nat \ {0}
  BY <1>1, Moved
<1> HIDE DEF k
<1>4. Ordered(zapros[k]) \in Nat
  BY <1>2, OrderedType
<1>5. From(zapros, k) = Ordered(zapros[k]) + From(zapros, k + 1) /\ From(zapros, k + 1) \in Nat
  BY <1>1, <1>2, <1>3, RestOfScript
<1>6. asked = global_index + From(zapros, k)
  BY DEF RunsOnce, From, k
<1>7. asked = (global_index + Ordered(zapros[k])) + From(zapros, k + 1)
  BY <1>1, <1>4, <1>5, <1>6
<1>8. asked' = global_index' + From(zapros', serving'.at)
  BY <1>3, <1>7 DEF k
<1> QED BY <1>8 DEF RunsOnce, From

LEMMA NothingAsked ==
  ASSUME NEW z, z = << >>, NEW k, k = 1
  PROVE  From(z, k) = 0
<1>1. SubSeq(z, k, Len(z)) = << >>
  OBVIOUS
<1> QED BY <1>1, AddsOfFew DEF From

LEMMA EndsOnce == Ends => RunsOnce'
<1> SUFFICES ASSUME Ends PROVE RunsOnce'
  OBVIOUS
<1>1. global_index' = 0 /\ zapros' = << >> /\ serving'.at = 1 /\ asked' = 0
  BY DEF Ends, Idle
<1>2. From(zapros', serving'.at) = 0
  BY <1>1, NothingAsked
<1>3. asked' = global_index' + From(zapros', serving'.at)
  BY <1>1, <1>2
<1> QED BY <1>3 DEF RunsOnce, From

LEMMA StartOnce ==
  ASSUME DataInv, Start
  PROVE  RunsOnce'
<1>1. zapros' = zapros /\ serving' = serving /\ asked' = global_index' /\ ~up
  BY DEF Start
<1>2. zapros = << >> /\ serving.at = 1
  BY <1>1 DEF DataInv, Stopped, Idle
<1>3. From(zapros', serving'.at) = 0
  BY <1>1, <1>2, NothingAsked
<1>4. global_index' \in Nat
  BY StartData DEF DataInv, Base
<1>5. asked' = global_index' + From(zapros', serving'.at)
  <2> DEFINE rest == From(zapros', serving'.at)
  <2>1. rest = 0
    BY <1>3
  <2> HIDE DEF rest
  <2>2. asked' = global_index' /\ global_index' + 0 = global_index'
    <3>1. asked' = global_index'
      BY <1>1
    <3>2. \A x \in Nat : x + 0 = x
      OBVIOUS
    <3>3. global_index' + 0 = global_index'
      BY <1>4, <3>2, Zenon
    <3> QED BY <3>1, <3>3
  <2>3. asked' = global_index' + rest
    BY <2>1, <2>2
  <2> QED BY <2>3 DEF rest
<1> QED BY <1>5 DEF RunsOnce, From

(* From its first command on, a script is the whole.                           *)
LEMMA WholeScript ==
  ASSUME NEW z \in Seq(Kept)
  PROVE  From(z, 1) = Adds(z)
<1>1. SubSeq(z, 1, Len(z)) = z
  <2> DEFINE s == SubSeq(z, 1, Len(z))
  <2>1. s \in Seq(Kept) /\ Len(s) = Len(z) /\ \A i \in 1 .. Len(s) : s[i] = z[i]
    OBVIOUS
  <2> HIDE DEF s
  <2>2. s = z
    BY <2>1, SameSequence
  <2> QED BY <2>2 DEF s
<1> QED BY <1>1 DEF From

LEMMA RequestOnce ==
  ASSUME DataInv, RunsOnce, NEW fd \in Fd, Request(fd)
  PROVE  RunsOnce'
<1>1. CASE Ends
  BY <1>1, EndsOnce
<1>2. CASE ~Ends
  <2>1. PICK req \in Requests, ok \in BOOLEAN :
           /\ Free /\ zapros' = zapros \o Pushed(req)
           /\ asked' = asked + Adds(Pushed(req))
           /\ serving' = [fd |-> fd, at |-> 1, ok |-> ok]
           /\ global_index' = global_index
    BY <1>2, RequestRule
  <2>2. zapros \in Seq(Kept) /\ global_index \in Nat /\ serving.at = 1
    BY <2>1 DEF DataInv, Script, Base, Free, Idle
  <2>3. Pushed(req) \in Seq(Kept)
    BY PushedKept
  <2> DEFINE new == Pushed(req)
             all == zapros \o new
  <2>4. new \in Seq(Kept)
    BY <2>3
  <2>5. zapros' = all /\ asked' = asked + Adds(new)
    BY <2>1
  <2> HIDE DEF new
  <2>6. all \in Seq(Kept)
    BY <2>2, <2>4, Joined
  <2>7. Adds(zapros) \in Nat /\ Adds(new) \in Nat /\ Adds(all) = Adds(zapros) + Adds(new)
    BY <2>2, <2>4, AddsConcat
  <2> HIDE DEF all
  <2>8. asked = global_index + Adds(zapros)
    BY <2>2, WholeScript DEF RunsOnce, From
  <2>9. From(all, 1) = Adds(all)
    BY <2>6, WholeScript
  <2>10. asked' = global_index' + From(zapros', serving'.at)
    <3>1. serving'.at = 1
      BY <2>1
    <3> QED BY <2>1, <2>2, <2>5, <2>7, <2>8, <2>9, <3>1
  <2> QED BY <2>10 DEF RunsOnce, From
<1> QED BY <1>1, <1>2

LEMMA ConnectionOnce ==
  ASSUME DataInv, RunsOnce, NEW fd \in Fd, Connect(fd) \/ Leave(fd) \/ ClientOut(fd) \/ Stop(fd) \/ Request(fd)
  PROVE  RunsOnce'
<1>1. CASE Ends
  BY <1>1, EndsOnce
<1>2. CASE Request(fd)
  BY <1>2, RequestOnce
<1>3. CASE ~Ends /\ ~Request(fd)
  <2>1. UNCHANGED << global_index, zapros, serving, asked >>
    BY <1>3 DEF Connect, Leave, ClientOut, Stop, Forget
  <2> QED BY <2>1 DEF RunsOnce
<1> QED BY <1>1, <1>2, <1>3

LEMMA CommandOnce ==
  ASSUME DataInv, RunsOnce, Save \/ Generate \/ InsertLesson \/ RemoveLesson \/ Select \/ Reselect \/ Show
  PROVE  RunsOnce'
<1>1. CASE Ends
  BY <1>1, EndsOnce
<1>2. CASE Generate \/ InsertLesson
  <2>1. PICK lessons \in Seq([Fields -> Value]) : AddRecords(lessons) /\ Len(lessons) = Ordered(zapros[serving.at])
    BY <1>2, Added
  <2>2. \E c : At(c) /\ Onward
    BY <1>2 DEF Generate, InsertLesson
  <2>3. /\ zapros' = zapros /\ asked' = asked
        /\ global_index' = global_index + Ordered(zapros[serving.at])
    BY <2>1 DEF AddRecords
  <2> QED BY <2>2, <2>3, Executed
<1>3. CASE ~Ends /\ (Save \/ RemoveLesson \/ Select \/ Reselect \/ Show)
  <2>1. PICK c \in {"save", "remove", "select", "reselect", "print"} :
          At(c) /\ Onward /\ zapros' = zapros /\ asked' = asked /\ global_index' = global_index
    BY <1>3 DEF Save, RemoveLesson, Select, Reselect, Show
  <2>2. Script /\ global_index \in Nat
    BY DEF DataInv, Base
  <2>3. zapros[serving.at] \in Kept /\ zapros[serving.at].comand = c
    BY <2>1, <2>2, Current
  <2>4. Ordered(zapros[serving.at]) = 0
    BY <2>3, OrderedType
  <2>5. global_index' = global_index + Ordered(zapros[serving.at])
    BY <2>1, <2>2, <2>4
  <2> QED BY <2>1, <2>5, Executed
<1> QED BY <1>1, <1>2, <1>3

LEMMA AnswerOnce ==
  ASSUME DataInv, RunsOnce, Answer \/ Refuse
  PROVE  RunsOnce'
<1>1. CASE Ends
  BY <1>1, EndsOnce
<1>2. Script /\ zapros \in Seq(Kept) /\ global_index \in Nat /\ serving.at \in Nat \ {0}
  BY DEF DataInv, Base, Script
<1>3. CASE ~Ends /\ Answer
  <2>1. /\ serving.at > Len(zapros) /\ zapros' = << >> /\ serving' = Idle
        /\ global_index' = global_index /\ asked' = asked
    BY <1>3 DEF Answer, SendsMayEnd
  <2>2. From(zapros, serving.at) = 0
    BY <1>2, <2>1, RestOfScript
  <2>3. From(zapros', serving'.at) = 0
    BY <2>1, IdleType, NothingAsked
  <2>4. asked = global_index + From(zapros, serving.at)
    BY DEF RunsOnce, From
  <2>5. asked' = global_index' + From(zapros', serving'.at)
    BY <2>1, <2>2, <2>3, <2>4
  <2> QED BY <2>5 DEF RunsOnce, From
<1>4. CASE ~Ends /\ Refuse
  <2>1. /\ ~serving.ok /\ zapros' = zapros /\ serving' = Idle
        /\ global_index' = global_index /\ asked' = asked
    BY <1>4 DEF Refuse, SendsMayEnd
  <2>2. serving.at = 1 /\ serving'.at = 1
    BY <1>2, <2>1, IdleType DEF Script
  <2> QED BY <2>1, <2>2 DEF RunsOnce
<1> QED BY <1>1, <1>3, <1>4

LEMMA OnceInit == Init => RunsOnce
<1> SUFFICES ASSUME Init PROVE RunsOnce
  OBVIOUS
<1>1. global_index = 0 /\ zapros = << >> /\ serving.at = 1 /\ asked = 0
  BY DEF Init, Idle
<1>2. From(zapros, serving.at) = 0
  BY <1>1, NothingAsked
<1>3. asked = global_index + From(zapros, serving.at)
  BY <1>1, <1>2
<1> QED BY <1>3 DEF RunsOnce, From

LEMMA OnceStep == DataInv /\ RunsOnce /\ [Next]_vars => RunsOnce'
<1> SUFFICES ASSUME DataInv, RunsOnce, [Next]_vars PROVE RunsOnce'
  OBVIOUS
<1>1. CASE UNCHANGED vars
  BY <1>1 DEF RunsOnce, vars, process
<1>2. CASE Start
  BY <1>2, StartOnce
<1>3. CASE Killed
  BY <1>3, EndsOnce DEF Killed
<1>4. CASE \E fd \in Fd : Connect(fd) \/ Leave(fd) \/ ClientOut(fd) \/ Stop(fd) \/ Request(fd)
  BY <1>4, ConnectionOnce
<1>5. CASE Save \/ Generate \/ InsertLesson \/ RemoveLesson \/ Select \/ Reselect \/ Show
  BY <1>5, CommandOnce
<1>6. CASE Answer \/ Refuse
  BY <1>6, AnswerOnce
<1> QED BY <1>1, <1>2, <1>3, <1>4, <1>5, <1>6 DEF Next

LEMMA SpecData == Spec => []DataInv
BY DataInit, DataStep, PTL DEF Spec

(* The five maps hold of every record its index, in the vector of its value,   *)
(* once and in order, and of nothing else, whatever was inserted, generated,   *)
(* removed or loaded: del_el_from_maps finds what it looks for.                *)
THEOREM TimetableMapsAgree == Spec => []MapsAgree
BY SpecData, DataMaps, PTL

(* A selection stays a list of copies in the order of their numbers, and the   *)
(* copy of a record that is still there is that record.                        *)
THEOREM TimetableSelectionsKnown == Spec => []SelectionsKnown
BY SpecData, DataKnown, PTL

(* What was accepted is executed once, though a refused request leaves what it *)
(* has pushed to the next: the records there have been, and those the rest of  *)
(* zapros adds, are the records that were ordered.                             *)
THEOREM TimetableRunsOnce == Spec => []RunsOnce
<1>1. DataInv /\ RunsOnce /\ [Next]_vars => RunsOnce'
  BY OnceStep
<1> QED BY <1>1, OnceInit, SpecData, PTL DEF Spec

-------------------------------------------------------------------------------
(* What a select takes.                                                        *)
Named(criteria, f) == {i \in DOMAIN criteria : criteria[i].pole = f}
LastOf(criteria, f) == SelectLastInSeq(criteria, LAMBDA crit : crit.pole = f)
Wanted(f, crit) == IF f \in Numbers THEN {v \in Value : Within(crit, v)} ELSE {crit.low} \cap Value
Admitted(criteria, f) ==
  IF LastOf(criteria, f) = 0 THEN 0 .. global_index - 1
  ELSE UNION {ToSet(mp[f][v]) : v \in Wanted(f, criteria[LastOf(criteria, f)])}

LEMMA AssociationIs ==
  ASSUME NEW criteria
  PROVE  association(criteria) = {k \in 0 .. global_index - 1 : \A f \in Fields : k \in Admitted(criteria, f)}
BY Zenon DEF association, Admitted, Wanted, LastOf

(* The criteria of a command that has been accepted.                           *)
GoodCriterion(crit) ==
  crit.pole \in Fields /\ (crit.pole \in Numbers => crit.low \in Nat /\ crit.high \in Nat)

LEMMA CriterionGood ==
  ASSUME NEW w, WordOk("select", w)
  PROVE  GoodCriterion(Criterion(w))
<1>1. w.form \in {"value", "range"} /\ w.pole \in Fields /\ (w.pole \in Numbers => BoundsOk(w))
  BY DEF WordOk
<1>2. Criterion(w).pole = w.pole
  BY DEF Criterion
<1>3. ASSUME w.pole \in Numbers
      PROVE  Criterion(w).low \in Nat /\ Criterion(w).high \in Nat
  <2>1. BoundsOk(w)
    BY <1>1, <1>3
  <2>2. CASE w.form = "value"
    <3>1. w.low \in Nat
      BY <2>1, <2>2 DEF BoundsOk
    <3> QED BY <2>2, <3>1 DEF Criterion, Star
  <2>3. CASE w.form # "value"
    <3>1. (w.low \in Nat \/ w.low = Star) /\ (w.high \in Nat \/ w.high = Star)
      BY <2>1, <2>3 DEF BoundsOk
    <3> QED BY <2>3, <3>1 DEF Criterion
  <2> QED BY <2>2, <2>3
<1> QED BY <1>1, <1>2, <1>3 DEF GoodCriterion

LEMMA CriteriaGood ==
  ASSUME Script, At("select")
  PROVE  /\ Criteria \in Seq({Criterion(w) : w \in AllWords})
         /\ \A i \in 1 .. Len(Criteria) : GoodCriterion(Criteria[i])
<1> DEFINE c == zapros[serving.at]
           words == c.words
           V == {Criterion(w) : w \in AllWords}
<1>1. c \in Kept /\ c.comand = "select"
  BY Current
<1>2. words \in Seq(AllWords) /\ DOMAIN words = 1 .. Len(words) /\ Accepted(c) /\ Len(words) \in Nat
  BY <1>1, KeptWords
<1>3. \A i \in 1 .. Len(words) : WordOk("select", words[i])
  BY <1>1, <1>2 DEF Accepted, ByFields
<1>4. Criteria = [i \in DOMAIN words |-> Criterion(words[i])]
  BY DEF Criteria, Words
<1> HIDE DEF c, words
<1>5. \A i \in 1 .. Len(words) : Criterion(words[i]) \in V /\ GoodCriterion(Criterion(words[i]))
  BY <1>2, <1>3, CriterionGood
<1> HIDE DEF V
<1>6. /\ Criteria \in Seq(V) /\ Len(Criteria) = Len(words)
      /\ \A i \in 1 .. Len(words) : Criteria[i] = Criterion(words[i])
  BY <1>2, <1>4, <1>5
<1> QED BY <1>5, <1>6 DEF V

LEMMA LastNamed ==
  ASSUME NEW V, NEW criteria \in Seq(V), NEW f
  PROVE  IF Named(criteria, f) = {} THEN LastOf(criteria, f) = 0
         ELSE /\ LastOf(criteria, f) = Max(Named(criteria, f))
              /\ LastOf(criteria, f) \in 1 .. Len(criteria) /\ criteria[LastOf(criteria, f)].pole = f
<1> DEFINE I == {i \in 1 .. Len(criteria) : criteria[i].pole = f}
<1>1. DOMAIN criteria = 1 .. Len(criteria) /\ Len(criteria) \in Nat
  OBVIOUS
<1>2. Named(criteria, f) = I
  BY <1>1 DEF Named
<1>3. LastOf(criteria, f) = IF I # {} THEN Max(I) ELSE 0
  BY DEF LastOf, SelectLastInSeq
<1>4. ASSUME I # {}
      PROVE  Max(I) \in I
  <2>1. I \in SUBSET (1 .. Len(criteria))
    OBVIOUS
  <2> HIDE DEF I
  <2> QED BY <1>1, <1>4, <2>1, MaxOfPositions
<1> QED BY <1>2, <1>3, <1>4

(* A record stands in the vectors of its values, and in no other.              *)
LEMMA InVector ==
  ASSUME Base, NEW i \in 1 .. Len(inf), NEW f \in Fields, NEW v \in Value
  PROVE  inf[i].index \in ToSet(mp[f][v]) <=> inf[i].lesson[f] = v
<1> DEFINE s == mp[f][v]
           R == Elements(inf)
<1>1. inf \in Seq(Records) /\ InOrder(inf)
  BY DEF Base
<1>2. Holds(s, R, f, v) /\ s \in Seq(Nat)
  BY DEF Base, Agrees, Maps
<1>3. Distinct(R) /\ inf[i] \in R
  BY <1>1, OrderedAreDistinct DEF Elements
<1> HIDE DEF s, R
<1>4. ToSet(s) = {s[j] : j \in 1 .. Len(s)}
  BY <1>2 DEF ToSet
<1>5. ASSUME inf[i].lesson[f] = v
      PROVE  inf[i].index \in ToSet(s)
  BY <1>2, <1>3, <1>4, <1>5 DEF Holds
<1>6. ASSUME inf[i].index \in ToSet(s)
      PROVE  inf[i].lesson[f] = v
  <2>1. PICK j \in 1 .. Len(s) : s[j] = inf[i].index
    BY <1>4, <1>6
  <2>2. PICK r \in R : r.lesson[f] = v /\ s[j] = r.index
    BY <1>2 DEF Holds
  <2>3. r = inf[i]
    BY <1>3, <2>1, <2>2 DEF Distinct
  <2> QED BY <2>2, <2>3
<1> QED BY <1>5, <1>6 DEF s

LEMMA OfVector ==
  ASSUME Base, NEW f \in Fields, NEW v \in Value, NEW k \in ToSet(mp[f][v])
  PROVE  \E i \in 1 .. Len(inf) : inf[i].index = k
<1> DEFINE s == mp[f][v]
<1>1. Holds(s, Elements(inf), f, v) /\ s \in Seq(Nat)
  BY DEF Base, Agrees, Maps
<1>2. k \in ToSet(s)
  OBVIOUS
<1> HIDE DEF s
<1>3. PICK j \in 1 .. Len(s) : s[j] = k
  BY <1>1, <1>2 DEF ToSet
<1>4. PICK r \in Elements(inf) : s[j] = r.index
  BY <1>1 DEF Holds
<1> QED BY <1>3, <1>4 DEF Elements

(* A value is wanted when it suits the criterion.                              *)
LEMMA WantedSuits ==
  ASSUME NEW crit, GoodCriterion(crit), NEW v \in Value
  PROVE  v \in Wanted(crit.pole, crit) <=> IF crit.pole \in Numbers THEN v \in crit.low .. crit.high ELSE v = crit.low
<1>1. v \in Nat
  BY ValueAssumption
<1>2. CASE crit.pole \in Numbers
  <2>1. crit.low \in Nat /\ crit.high \in Nat
    BY <1>2 DEF GoodCriterion
  <2>2. v \in crit.low .. crit.high <=> crit.low <= v /\ v <= crit.high
    BY <1>1, <2>1
  <2> QED BY <1>2, <2>2 DEF Wanted, Within
<1>3. CASE crit.pole \notin Numbers
  BY <1>3 DEF Wanted
<1> QED BY <1>2, <1>3

LEMMA RecordAdmitted ==
  ASSUME Base, NEW V, NEW criteria \in Seq(V), \A i \in 1 .. Len(criteria) : GoodCriterion(criteria[i]),
         NEW i \in 1 .. Len(inf), NEW f \in Fields
  PROVE  inf[i].index \in Admitted(criteria, f) <=>
           (Named(criteria, f) # {} =>
              LET crit == criteria[Max(Named(criteria, f))]
              IN IF f \in Numbers THEN inf[i].lesson[f] \in crit.low .. crit.high ELSE inf[i].lesson[f] = crit.low)
<1> DEFINE v == inf[i].lesson[f]
           n == LastOf(criteria, f)
           crit == criteria[n]
<1>1. inf[i] \in Records
  BY DEF Base
<1>2. v \in Value /\ inf[i].index \in Nat /\ inf[i].index < global_index /\ global_index \in Nat
  BY <1>1 DEF Records, Base
<1>3. CASE Named(criteria, f) = {}
  <2>1. n = 0
    BY <1>3, LastNamed
  <2>2. inf[i].index \in 0 .. global_index - 1
    BY <1>2
  <2> QED BY <1>3, <2>1, <2>2 DEF Admitted
<1>4. CASE Named(criteria, f) # {}
  <2>1. n = Max(Named(criteria, f)) /\ n \in 1 .. Len(criteria) /\ crit.pole = f
    BY <1>4, LastNamed
  <2>2. GoodCriterion(crit)
    BY <2>1
  <2>3. n # 0
    BY <2>1
  <2>4. Admitted(criteria, f) = UNION {ToSet(mp[f][u]) : u \in Wanted(f, crit)}
    BY <2>3 DEF Admitted
  <2>5. Wanted(f, crit) \subseteq Value
    BY DEF Wanted
  <2>6. inf[i].index \in Admitted(criteria, f) <=> v \in Wanted(f, crit)
    <3>1. \A u \in Wanted(f, crit) : inf[i].index \in ToSet(mp[f][u]) <=> v = u
      BY <2>5, InVector
    <3> HIDE DEF v, crit
    <3> QED BY <2>4, <3>1
  <2>7. v \in Wanted(f, crit) <=> IF f \in Numbers THEN v \in crit.low .. crit.high ELSE v = crit.low
    BY <1>2, <2>1, <2>2, WantedSuits
  <2> QED BY <1>4, <2>1, <2>6, <2>7
<1> QED BY <1>3, <1>4

LEMMA ChosenSuits ==
  ASSUME Base, NEW V, NEW criteria \in Seq(V), \A i \in 1 .. Len(criteria) : GoodCriterion(criteria[i]),
         NEW i \in 1 .. Len(inf)
  PROVE  inf[i].index \in association(criteria) <=> Suits(inf[i].lesson, criteria)
<1>1. inf[i] \in Records
  BY DEF Base
<1>2. inf[i].index \in 0 .. global_index - 1
  BY <1>1 DEF Records, Base
<1>3. inf[i].index \in association(criteria) <=> \A f \in Fields : inf[i].index \in Admitted(criteria, f)
  BY <1>2, AssociationIs
<1>4. Suits(inf[i].lesson, criteria) <=>
        \A f \in Fields : Named(criteria, f) # {} =>
          LET crit == criteria[Max(Named(criteria, f))]
          IN IF f \in Numbers THEN inf[i].lesson[f] \in crit.low .. crit.high ELSE inf[i].lesson[f] = crit.low
  BY Zenon DEF Suits, Named
<1> QED BY <1>3, <1>4, RecordAdmitted

(* With a criterion only records that are there are met.                       *)
LEMMA ChosenThere ==
  ASSUME Base, NEW V, NEW criteria \in Seq(V), \A i \in 1 .. Len(criteria) : GoodCriterion(criteria[i]),
         criteria # << >>, NEW k \in association(criteria)
  PROVE  \E i \in 1 .. Len(inf) : inf[i].index = k
<1>1. 1 \in 1 .. Len(criteria) /\ DOMAIN criteria = 1 .. Len(criteria)
  OBVIOUS
<1> DEFINE f == criteria[1].pole
           n == LastOf(criteria, f)
<1>2. f \in Fields
  BY <1>1 DEF GoodCriterion
<1>3. 1 \in Named(criteria, f)
  BY <1>1 DEF Named
<1>4. n \in 1 .. Len(criteria)
  BY <1>3, LastNamed
<1>5. k \in Admitted(criteria, f)
  BY <1>2, AssociationIs
<1>6. n # 0
  BY <1>4
<1>7. PICK v \in Wanted(f, criteria[n]) : k \in ToSet(mp[f][v])
  BY <1>5, <1>6 DEF Admitted
<1>8. v \in Value
  BY <1>7 DEF Wanted
<1> QED BY <1>2, <1>7, <1>8, OfVector

LEMMA SelectTakes ==
  ASSUME DataInv, Select, Criteria # << >>
  PROVE  /\ up'
         /\ ses' = [ses EXCEPT ![sok[serving.fd]] =
                      Picked(inf, {i \in DOMAIN inf : Suits(inf[i].lesson, Criteria)})]
<1> DEFINE V == {Criterion(w) : w \in AllWords}
           criteria == Criteria
           chosen == association(criteria)
<1>1. Base /\ Script /\ At("select") /\ up
  BY DEF DataInv, Select, At
<1>2. criteria \in Seq(V) /\ \A i \in 1 .. Len(criteria) : GoodCriterion(criteria[i])
  BY <1>1, CriteriaGood
<1>3. criteria # << >>
  OBVIOUS
<1>4. DOMAIN inf = 1 .. Len(inf)
  BY <1>1 DEF Base
<1>5. IF \E k \in chosen : \A i \in DOMAIN inf : inf[i].index # k THEN Ends
      ELSE /\ ses' = [ses EXCEPT ![sok[serving.fd]] = Chosen(inf, chosen)]
           /\ up' = up
  BY DEF Select
<1> HIDE DEF criteria, V
<1>6. \A k \in chosen : \E i \in DOMAIN inf : inf[i].index = k
  BY <1>1, <1>2, <1>3, <1>4, ChosenThere
<1>7. {i \in DOMAIN inf : inf[i].index \in chosen} = {i \in DOMAIN inf : Suits(inf[i].lesson, criteria)}
  BY <1>1, <1>2, <1>4, ChosenSuits
<1> HIDE DEF chosen
<1>8. Chosen(inf, chosen) = Picked(inf, {i \in DOMAIN inf : Suits(inf[i].lesson, criteria)})
  BY <1>7 DEF Chosen
<1>9. ses' = [ses EXCEPT ![sok[serving.fd]] = Picked(inf, {i \in DOMAIN inf : Suits(inf[i].lesson, criteria)})] /\ up'
  BY <1>1, <1>5, <1>6, <1>8
<1> QED BY <1>9 DEF criteria

-------------------------------------------------------------------------------
(* Sessions are never taken away while the process lives: the next one's       *)
(* number is new.                                                              *)
Numbered ==
  /\ \E S : ses \in Seq(S)
  /\ \A fd \in DOMAIN sok : sok[fd] \in 1 .. Len(ses)

Inv == Numbered /\ SessionsPrivate

-------------------------------------------------------------------------------
LEMMA NoSession ==
  ASSUME ses' = << >>, sok' = << >>
  PROVE  Inv'
<1>1. DOMAIN sok' = {}
  OBVIOUS
<1>2. ses' \in Seq({})
  OBVIOUS
<1> QED BY <1>1, <1>2 DEF Inv, Numbered, SessionsPrivate

LEMMA EndsInv == Ends => Inv'
BY NoSession DEF Ends

(* Steps that leave the descriptors' sessions, and have at least the clients.  *)
LEMMA SameSessions ==
  ASSUME Inv, sok' = sok, ses' = ses, DOMAIN client \subseteq DOMAIN client'
  PROVE  Inv'
BY DEF Inv, Numbered, SessionsPrivate

(* A selection replaces one session's, and so the sessions are as many.        *)
LEMMA SessionReplaced ==
  ASSUME Inv, sok' = sok, client' = client, NEW k, NEW x, ses' = [ses EXCEPT ![k] = x]
  PROVE  Inv'
<1>1. PICK S : ses \in Seq(S)
  BY DEF Inv, Numbered
<1>2. ses' \in Seq(S \cup {x}) /\ Len(ses') = Len(ses)
  <2>1. Len(ses) \in Nat /\ ses \in [1 .. Len(ses) -> S]
    BY <1>1
  <2>2. ses' \in [1 .. Len(ses) -> S \cup {x}]
    BY <2>1
  <2> QED BY <2>1, <2>2
<1> QED BY <1>2 DEF Inv, Numbered, SessionsPrivate

LEMMA ForgetInv ==
  ASSUME Inv, NEW fd, Forget(fd)
  PROVE  Inv'
<1>1. CASE fd \notin DOMAIN sok
  BY <1>1, EndsInv DEF Forget
<1>2. CASE fd \in DOMAIN sok
  <2>1. /\ sok' = [d \in DOMAIN sok \ {fd} |-> sok[d]]
        /\ DOMAIN client' = DOMAIN client \ {fd} /\ ses' = ses
    BY <1>2 DEF Forget, Restrict
  <2> QED BY <2>1 DEF Inv, Numbered, SessionsPrivate
<1> QED BY <1>1, <1>2

(* A request takes the session of its descriptor, or a new one.                *)
LEMMA BeginSessionInv ==
  ASSUME Inv, NEW fd \in DOMAIN client, BeginSession(fd), client' = client
  PROVE  Inv'
<1>1. CASE fd \in DOMAIN sok
  BY <1>1, SameSessions DEF BeginSession
<1>2. CASE fd \notin DOMAIN sok
  <2>1. PICK S : ses \in Seq(S)
    BY DEF Inv, Numbered
  <2>2. ses' \in Seq(S \cup {<< >>}) /\ Len(ses') = Len(ses) + 1 /\ Len(ses) \in Nat
    <3>1. ses' = Append(ses, << >>)
      BY <1>2 DEF BeginSession
    <3> QED BY <2>1, <3>1
  <2>3. /\ DOMAIN sok' = DOMAIN sok \cup {fd} /\ sok'[fd] = Len(ses) + 1
        /\ \A d \in DOMAIN sok : sok'[d] = sok[d]
    BY <1>2 DEF BeginSession
  <2>4. \A d \in DOMAIN sok : sok[d] \in 1 .. Len(ses)
    BY DEF Inv, Numbered
  <2>5. Numbered'
    <3>1. \A d \in DOMAIN sok' : sok'[d] \in 1 .. Len(ses')
      BY <2>2, <2>3, <2>4
    <3> QED BY <2>2, <3>1 DEF Numbered
  <2>6. ASSUME NEW c \in DOMAIN sok', NEW d \in DOMAIN sok', sok'[c] = sok'[d]
        PROVE  c = d
    <3>1. CASE c \in DOMAIN sok /\ d \in DOMAIN sok
      BY <2>3, <2>6, <3>1 DEF Inv, SessionsPrivate
    <3>2. \A e \in DOMAIN sok : sok'[e] # sok'[fd]
      BY <2>2, <2>3, <2>4
    <3> QED BY <2>3, <2>6, <3>1, <3>2
  <2>7. DOMAIN sok' \subseteq DOMAIN client'
    BY <2>3 DEF Inv, SessionsPrivate
  <2> QED BY <2>5, <2>6, <2>7 DEF Inv, SessionsPrivate
<1> QED BY <1>1, <1>2

-------------------------------------------------------------------------------
LEMMA TimetableInit == Init => Inv
<1> SUFFICES ASSUME Init PROVE Inv
  OBVIOUS
<1>1. ses = << >> /\ DOMAIN sok = {}
  BY DEF Init
<1>2. ses \in Seq({})
  BY <1>1
<1> QED BY <1>1, <1>2 DEF Inv, Numbered, SessionsPrivate

LEMMA ConnectionInv ==
  ASSUME Inv, NEW fd \in Fd, Connect(fd) \/ Leave(fd) \/ ClientOut(fd) \/ Stop(fd) \/ Request(fd)
  PROVE  Inv'
<1>1. CASE Connect(fd)
  <2>1. DOMAIN client \subseteq DOMAIN client' /\ sok' = sok /\ ses' = ses
    BY <1>1 DEF Connect
  <2> QED BY <2>1, SameSessions
<1>2. CASE Leave(fd)
  <2>1. DOMAIN client \subseteq DOMAIN client' /\ sok' = sok /\ ses' = ses
    BY <1>2 DEF Leave
  <2> QED BY <2>1, SameSessions
<1>3. CASE ClientOut(fd) \/ Stop(fd)
  BY <1>3, ForgetInv DEF ClientOut, Stop
<1>4. CASE Request(fd)
  <2>1. Ends \/ (BeginSession(fd) /\ client' = client)
    BY <1>4 DEF Request
  <2>2. fd \in DOMAIN client
    BY <1>4 DEF Request
  <2> QED BY <2>1, <2>2, EndsInv, BeginSessionInv
<1> QED BY <1>1, <1>2, <1>3, <1>4

LEMMA CommandInv ==
  ASSUME Inv, Save \/ Generate \/ InsertLesson \/ RemoveLesson \/ Select \/ Reselect \/ Show
  PROVE  Inv'
<1>1. CASE Save \/ RemoveLesson \/ Show
  <2>1. sok' = sok /\ ses' = ses /\ client' = client
    BY <1>1 DEF Save, RemoveLesson, Show
  <2> QED BY <2>1, SameSessions
<1>2. CASE Generate \/ InsertLesson
  <2>1. sok' = sok /\ ses' = ses /\ client' = client
    BY <1>2 DEF Generate, InsertLesson, AddRecords
  <2> QED BY <2>1, SameSessions
<1>3. CASE Select
  <2>1. Ends \/ \E k, x : ses' = [ses EXCEPT ![k] = x] /\ sok' = sok /\ client' = client
    BY <1>3 DEF Select
  <2> QED BY <2>1, EndsInv, SessionReplaced
<1>4. CASE Reselect
  <2>1. \E k, x : ses' = [ses EXCEPT ![k] = x] /\ sok' = sok /\ client' = client
    BY <1>4 DEF Reselect
  <2> QED BY <2>1, SessionReplaced
<1> QED BY <1>1, <1>2, <1>3, <1>4

LEMMA TimetableStep == Inv /\ [Next]_vars => Inv'
<1> SUFFICES ASSUME Inv, [Next]_vars PROVE Inv'
  OBVIOUS
<1>1. CASE UNCHANGED vars
  BY <1>1 DEF Inv, Numbered, SessionsPrivate, vars, process
<1>2. CASE Start
  <2>1. sok' = sok /\ ses' = ses /\ client' = client
    BY <1>2 DEF Start
  <2> QED BY <2>1, SameSessions
<1>3. CASE Killed
  BY <1>3, EndsInv DEF Killed
<1>4. CASE \E fd \in Fd : Connect(fd) \/ Leave(fd) \/ ClientOut(fd) \/ Stop(fd) \/ Request(fd)
  BY <1>4, ConnectionInv
<1>5. CASE Save \/ Generate \/ InsertLesson \/ RemoveLesson \/ Select \/ Reselect \/ Show
  BY <1>5, CommandInv
<1>6. CASE Answer \/ Refuse
  <2>1. Ends \/ (sok' = sok /\ ses' = ses /\ client' = client)
    BY <1>6 DEF Answer, Refuse, SendsMayEnd
  <2> QED BY <2>1, EndsInv, SameSessions
<1> QED BY <1>1, <1>2, <1>3, <1>4, <1>5, <1>6 DEF Next

(* No two connections share a session, and only a connection has one, though   *)
(* descriptors come again: closing one forgets its session.                    *)
THEOREM TimetableSessionsPrivate == Spec => []SessionsPrivate
<1>1. Inv => SessionsPrivate
  BY DEF Inv
<1> QED BY <1>1, TimetableInit, TimetableStep, PTL DEF Spec
-------------------------------------------------------------------------------
(* A request that is executed has a session.                                   *)
Attended == serving.ok => serving.fd \in DOMAIN sok

LEMMA EndsAttended == Ends => Attended'
<1> SUFFICES ASSUME Ends PROVE Attended'
  OBVIOUS
<1>1. serving' = Idle
  BY DEF Ends
<1> QED BY <1>1, IdleType DEF Attended

LEMMA ConnectionAttended ==
  ASSUME Attended, NEW fd \in Fd, Connect(fd) \/ Leave(fd) \/ ClientOut(fd) \/ Stop(fd) \/ Request(fd)
  PROVE  Attended'
<1>1. CASE Ends
  BY <1>1, EndsAttended
<1>2. CASE ~Ends /\ Request(fd)
  <2>1. BeginSession(fd) /\ serving'.fd = fd
    BY <1>2, RequestRule
  <2>2. fd \in DOMAIN sok'
    BY <2>1 DEF BeginSession
  <2> QED BY <2>1, <2>2 DEF Attended
<1>3. CASE Connect(fd) \/ Leave(fd)
  BY <1>3 DEF Connect, Leave, Attended
<1>4. CASE ~Ends /\ (ClientOut(fd) \/ Stop(fd))
  <2>1. serving' = serving /\ serving = Idle
    BY <1>4 DEF ClientOut, Stop, Forget, Free
  <2> QED BY <2>1, IdleType DEF Attended
<1> QED BY <1>1, <1>2, <1>3, <1>4

LEMMA AttendedStep == DataInv /\ Attended /\ [Next]_vars => Attended'
<1> SUFFICES ASSUME DataInv, Attended, [Next]_vars PROVE Attended'
  OBVIOUS
<1>1. CASE UNCHANGED vars
  BY <1>1 DEF Attended, vars, process
<1>2. CASE Start
  BY <1>2 DEF Start, Attended
<1>3. CASE Ends
  BY <1>3, EndsAttended
<1>4. CASE \E fd \in Fd : Connect(fd) \/ Leave(fd) \/ ClientOut(fd) \/ Stop(fd) \/ Request(fd)
  BY <1>4, ConnectionAttended
<1>5. CASE ~Ends /\ (Save \/ Generate \/ InsertLesson \/ RemoveLesson \/ Select \/ Reselect \/ Show)
  <2>1. Onward /\ sok' = sok
    BY <1>5 DEF Save, Generate, InsertLesson, AddRecords, RemoveLesson, Select, Reselect, Show
  <2>2. serving'.fd = serving.fd /\ serving'.ok = serving.ok
    BY <2>1 DEF Onward, DataInv, Script
  <2> QED BY <2>1, <2>2 DEF Attended
<1>6. CASE ~Ends /\ (Answer \/ Refuse)
  <2>1. serving' = Idle
    BY <1>6 DEF Answer, Refuse, SendsMayEnd
  <2> QED BY <2>1, IdleType DEF Attended
<1> QED BY <1>1, <1>2, <1>3, <1>4, <1>5, <1>6 DEF Next, Killed

(* A select with a criterion takes the records with a suitable value in every  *)
(* field named, in the order of the base, and its walk does not run off it.    *)
THEOREM TimetableSelectsSuitable == Spec => SelectsSuitable
<1>1. ASSUME DataInv, Inv, Attended, Select, Criteria # << >>
      PROVE  /\ up'
             /\ ses'[sok[serving.fd]] =
                  Picked(inf, {i \in DOMAIN inf : Suits(inf[i].lesson, Criteria)})
  <2> DEFINE taken == Picked(inf, {i \in DOMAIN inf : Suits(inf[i].lesson, Criteria)})
             k == sok[serving.fd]
  <2>1. up' /\ ses' = [ses EXCEPT ![k] = taken]
    BY <1>1, SelectTakes
  <2>2. k \in DOMAIN ses
    <3>1. serving.ok
      BY <1>1 DEF Select, At
    <3>2. k \in 1 .. Len(ses)
      BY <1>1, <3>1 DEF Attended, Inv, Numbered
    <3>3. ses \in Seq(Seq(Records))
      BY <1>1 DEF DataInv, Copies
    <3> QED BY <3>2, <3>3
  <2> HIDE DEF taken, k
  <2>3. ses'[k] = taken
    BY <2>1, <2>2
  <2> QED BY <2>1, <2>3 DEF taken, k
<1>2. Init => Attended
  BY DEF Init, Idle, Attended
<1>3. DataInv /\ Attended /\ [Next]_vars => Attended'
  BY AttendedStep
<1>4. Spec => []Attended
  BY <1>2, <1>3, SpecData, PTL DEF Spec
<1>5. Spec => []Inv
  BY TimetableInit, TimetableStep, PTL DEF Spec
<1>6. DataInv /\ Inv /\ Attended => TakesSuitable
  BY <1>1 DEF TakesSuitable
<1>7. Spec => [][TakesSuitable]_vars
  BY <1>4, <1>5, <1>6, SpecData, PTL DEF Spec
<1> QED BY <1>7 DEF SelectsSuitable
================================================================================
