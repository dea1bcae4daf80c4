---------------------------- MODULE StudentIndex ----------------------------
(***************************************************************************)
(* The class Index of StudentDatabase: the ids of a collection of students *)
(* and three ordered maps from a name, a group or a rating to the ids that *)
(* have it, with the lookups the nodes of a query tree make in them.       *)
(*                                                                         *)
(* A key (a name, a group, a rating) is a member of Value, a set of        *)
(* integers: all that the lookups tell apart is the order of the keys.  A  *)
(* key that a std::map does not hold is one whose bucket is empty; the     *)
(* code never leaves an empty bucket in a map.                             *)
(***************************************************************************)
EXTENDS Integers

CONSTANT Value

ASSUME ValueAssumption == Value \subseteq Int /\ 0 \in Value

Column == {"name", "group", "rating"}

Student == [Column -> Value]

Index == [ids : SUBSET Nat, by : [Column -> [Value -> SUBSET Nat]]]

EmptyIndex == [ids |-> {}, by |-> [c \in Column |-> [v \in Value |-> {}]]]

IsSingleton(S) == \E x \in S : S = {x}

(***************************************************************************)
(* Insert and Remove.  Remove drops the whole bucket when its size is 1    *)
(* and only the id otherwise, whichever id the bucket of size 1 holds.     *)
(***************************************************************************)
IndexInsert(idx, id, s) ==
  IF id \in idx.ids THEN idx
  ELSE [ids |-> idx.ids \cup {id},
        by  |-> [c \in Column |-> [idx.by[c] EXCEPT ![s[c]] = @ \cup {id}]]]

(* Mutant of BucketErase: the bucket goes with any of its ids.             *)
BucketDrop(bucket, id) == {}

BucketErase(bucket, id) == IF IsSingleton(bucket) THEN {} ELSE bucket \ {id}

(* Mutant of IndexRemove: the three maps are forgotten.                    *)
IndexRemoveIdOnly(idx, id, s) ==
  [idx EXCEPT !.ids = @ \ {id}]

IndexRemove(idx, id, s) ==
  IF id \notin idx.ids THEN idx
  ELSE [ids |-> idx.ids \ {id},
        by  |-> [c \in Column |->
                   [idx.by[c] EXCEPT ![s[c]] = BucketErase(@, id)]]]

(***************************************************************************)
(* The index that Insert builds from nothing for the ids of S, where       *)
(* data[id + 1] is the student of id: ConstructIndex and Load.             *)
(***************************************************************************)
IndexOf(S, data) ==
  [ids |-> S,
   by  |-> [c \in Column |-> [v \in Value |-> {id \in S : data[id+1][c] = v}]]]

-----------------------------------------------------------------------------
(***************************************************************************)
(* One comparison of a query.  "==*" and "!=*" are == and != against a     *)
(* name that ends in an asterisk: val is the name without it, to the same  *)
(* string with its last character incremented.                             *)
(***************************************************************************)
Comparison == {"<", "<=", ">", ">=", "==", "!=", "==*", "!=*"}

Negative == {"!=", "!=*"}

Leaf == [col : Column, cmp : Comparison, val : Value, to : Value]

Pattern == {"==*", "!=*"}

(* Mutant of Visited: CollectL does not step back over an equal key.       *)
VisitedTooFar(l) ==
  {k \in Value : \/ l.cmp \in {"<", "<="} /\ k <= l.val
                 \/ l.cmp \in {">", ">="} /\ k >= l.val
                 \/ l.cmp \in {"==", "!="} /\ k = l.val
                 \/ l.cmp \in Pattern /\ l.val <= k /\ k <= l.to}

(* The keys between the two iterators a lookup walks.  The iterator of     *)
(* CollectG starts at lower_bound(val): the value itself is included.      *)
Visited(l) ==
  {k \in Value : \/ l.cmp = "<" /\ k < l.val
                 \/ l.cmp = "<=" /\ k <= l.val
                 \/ l.cmp \in {">", ">="} /\ k >= l.val
                 \/ l.cmp \in {"==", "!="} /\ k = l.val
                 \/ l.cmp \in Pattern /\ l.val <= k /\ k <= l.to}

Present(idx, l) == {k \in Visited(l) : idx.by[l.col][k] # {}}

Collect(idx, l) == UNION {idx.by[l.col][k] : k \in Visited(l)}

(***************************************************************************)
(* CollectG compares the key after lower_bound(val) with val.  When        *)
(* lower_bound(val) is the last key of the map that is a read of end():    *)
(* the key is skipped or kept depending on the memory behind the map (in   *)
(* the builds of libstdc++, the number of keys the map holds).             *)
(*                                                                         *)
(* The negative lookups copy the ids and erase from the copy a range of    *)
(* iterators of ANOTHER set, the bucket.  When no bucket is hit nothing is *)
(* erased.  Otherwise the behaviour is undefined: see Undefined below.     *)
(***************************************************************************)
FindByCondition(idx, l) ==
  IF l.cmp \in Negative THEN {idx.ids}
  ELSE {Collect(idx, l)}
       \cup (IF l.cmp = ">" /\ IsSingleton(Present(idx, l)) THEN {{}} ELSE {})

Freed(idx, l) == IF l.cmp \in Negative THEN {l.col} \X Present(idx, l) ELSE {}

-----------------------------------------------------------------------------
(***************************************************************************)
(* A query: no condition at all, one comparison, or two comparisons under  *)
(* one logical operation (deeper trees combine the same two operators).    *)
(***************************************************************************)
Query == [op : {"EMPTY", "ONE", "AND", "OR"}, lhs : Leaf, rhs : Leaf]

Leaves(q) == IF q.op = "EMPTY" THEN {}
             ELSE IF q.op = "ONE" THEN {q.lhs} ELSE {q.lhs, q.rhs}

(* The buckets <<column, key>> whose nodes the query frees in place.       *)
Damaged(idx, q) == UNION {Freed(idx, l) : l \in Leaves(q)}

Undefined(idx, q) == Damaged(idx, q) # {}

(***************************************************************************)
(* The sets of ids that Node::Process can return for q.  Once a lookup of  *)
(* the query has freed nodes of the index, the rest of the evaluation may  *)
(* find any of the ids.                                                    *)
(***************************************************************************)
Answers(idx, q) ==
  IF Undefined(idx, q) THEN SUBSET idx.ids
  ELSE IF q.op = "EMPTY" THEN {{}}
  ELSE IF q.op = "ONE" THEN FindByCondition(idx, q.lhs)
  ELSE {IF q.op = "AND" THEN a \cap b ELSE a \cup b :
          a \in FindByCondition(idx, q.lhs), b \in FindByCondition(idx, q.rhs)}

(* What is left of an index whose buckets B were freed: their nodes are    *)
(* reused by later allocations, so that each of them may hold any ids.     *)
Corrupted(idx, B, junk) ==
  [idx EXCEPT !.by = [c \in Column |-> [v \in Value |->
                        IF <<c, v>> \in B THEN junk ELSE idx.by[c][v]]]]
=============================================================================
