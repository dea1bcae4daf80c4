-------------------------------- MODULE AvlTree --------------------------------
(* Menshikh_DA's tree of the recipes: insert and remove with their rotations,  *)
(* search and copy.  The server's requests insert and search.                  *)
EXTENDS Integers, Sequences

NULL == [height |-> -1]

Larger(a, b) == IF a > b THEN a ELSE b

NodeOf(data, card, left, right) ==
  [data |-> data, card |-> card, left |-> left, right |-> right,
   height |-> Larger(left.height, right.height) + 1]

With(t, left, right) == NodeOf(t.data, t.card, left, right)

(* Mutant: the subtree between the two nodes comes to hang on the wrong side.  *)
srrCrossed(t) ==
  IF t.left = NULL THEN t ELSE With(t.left, t.left.left, With(t, t.right, t.left.right))

(* The rotations: srr to the right, slr to the left, and the double ones.      *)
srr(t) == IF t.left = NULL THEN t ELSE With(t.left, t.left.left, With(t, t.left.right, t.right))

slr(t) == IF t.right = NULL THEN t ELSE With(t.right, With(t, t.left, t.right.left), t.right.right)

llr(t) == slr(IF t.right = NULL THEN t ELSE With(t, t.left, srr(t.right)))

lrr(t) == srr(IF t.left = NULL THEN t ELSE With(t, slr(t.left), t.right))

(* A recursion goes down the tree, from a node to those below it.              *)
NodesBelow(t) ==
  LET level[n \in 0 .. t.height + 1] ==
        IF n = 0 THEN {t} ELSE UNION {{s.left, s.right} : s \in level[n - 1] \ {NULL}}
  IN UNION {level[n] : n \in 0 .. t.height + 1}

(* On the right the rotations are swapped: the single one answers a node that  *)
(* grew on the inside.                                                         *)
GrownLeft(x, t) ==
  IF t.left.height - t.right.height # 2 THEN t ELSE IF x < t.left.data THEN srr(t) ELSE lrr(t)

GrownRight(x, t) ==
  IF t.right.height - t.left.height # 2 THEN t ELSE IF x < t.right.data THEN slr(t) ELSE llr(t)

(* A name that is there keeps its card.                                        *)
insert(x, card, t) ==
  LET into[s \in NodesBelow(t)] ==
        IF s = NULL THEN NodeOf(x, card, NULL, NULL)
        ELSE IF x = s.data THEN s
        ELSE IF x < s.data THEN GrownLeft(x, With(s, into[s.left], s.right))
        ELSE GrownRight(x, With(s, s.left, into[s.right]))
  IN into[t]

searchh(x, t) ==
  LET from[s \in NodesBelow(t)] ==
        IF s = NULL \/ x = s.data THEN s ELSE IF x < s.data THEN from[s.left] ELSE from[s.right]
  IN from[t]

findmin(t) ==
  LET from[s \in NodesBelow(t)] == IF s = NULL \/ s.left = NULL THEN s ELSE from[s.left]
  IN from[t]

(* A tree that lost height on one side: the rotations that are called are      *)
(* those of the other side, and leave the light side still lighter.            *)
Leaning(t) ==
  CASE t.left.height - t.right.height = 2 ->
         IF t.left.left.height - t.left.right.height = 1 THEN slr(t) ELSE llr(t)
    [] t.right.height - t.left.height = 2 ->
         IF t.right.right.height - t.right.left.height = 1 THEN srr(t) ELSE lrr(t)
    [] OTHER -> t

(* A node with two children takes over its successor, and the successor's name *)
(* is removed below it.                                                        *)
Without(s, y, left, right) ==
  IF s = NULL THEN NULL
  ELSE IF y < s.data THEN Leaning(With(s, left[y], s.right))
  ELSE IF y > s.data THEN Leaning(With(s, s.left, right[y]))
  ELSE IF s.left = NULL /\ s.right = NULL THEN NULL
  ELSE IF s.left = NULL THEN Leaning(s.right)
  ELSE IF s.right = NULL THEN Leaning(s.left)
  ELSE LET least == findmin(s.right)
       IN Leaning(NodeOf(least.data, least.card, s.left, right[least.data]))

remove(x, t) ==
  LET names == {x} \cup {s.data : s \in NodesBelow(t) \ {NULL}}
      from[s \in NodesBelow(t)] == [y \in names |-> Without(s, y, from[s.left], from[s.right])]
  IN from[t][x]

(* The nodes in the order printt writes them, and in that copy comes by them.  *)
Written(t) ==
  LET of[s \in NodesBelow(t)] == IF s = NULL THEN << >> ELSE of[s.left] \o << s >> \o of[s.right]
  IN of[t]

Preorder(t) ==
  LET of[s \in NodesBelow(t)] == IF s = NULL THEN << >> ELSE << s >> \o of[s.left] \o of[s.right]
  IN of[t]

(* The nodes of b inserted into a one by one, the upper ones first.            *)
copy(a, b) ==
  LET nodes == Preorder(b)
      upTo[n \in 0 .. Len(nodes)] ==
        IF n = 0 THEN a ELSE insert(nodes[n].data, nodes[n].card, upTo[n - 1])
  IN upTo[Len(nodes)]
================================================================================
