-------------------------------- MODULE RBTree --------------------------------
(* The red-black tree of Grigoriev_S/RBTree.h, in which the market keeps its   *)
(* players: put and remove with their repairs.  The left child has the larger  *)
(* key.  A node is named by its key; parent pointers are derived from the      *)
(* children, with which the code keeps them in step.  Whatever throws or       *)
(* dereferences a null pointer leaves Broken: nothing catches an int before    *)
(* the end of main.                                                            *)
EXTENDS Integers, FiniteSets, Sequences

CONSTANT MaxKey
(* What the constant must satisfy. *)
KeyAssumption == MaxKey \in Nat \ {0}

Keys == 1 .. MaxKey
Nil == 0

VARIABLE tree \* root, left and right child of every key, the set of red nodes

vars == << tree >>

NoChildren == [k \in Keys |-> Nil]
Empty == [root |-> Nil, left |-> NoChildren, right |-> NoChildren, red |-> {}]
Broken == [root |-> -1, left |-> NoChildren, right |-> NoChildren, red |-> {}]

-------------------------------------------------------------------------------
(* The methods of node.  Nil is not red. *)
Parent(t, n) == IF n = t.root THEN Nil
                ELSE CHOOSE p \in Keys : t.left[p] = n \/ t.right[p] = n

Grandparent(t, n) == IF n = t.root THEN Nil ELSE Parent(t, Parent(t, n))

Sibling(t, n) == IF n = t.root THEN Nil
                 ELSE LET p == Parent(t, n) IN IF t.right[p] = n THEN t.left[p] ELSE t.right[p]

Uncle(t, n) == IF n = t.root THEN Nil ELSE Sibling(t, Parent(t, n))

Child(t, n) == IF t.left[n] # Nil THEN t.left[n] ELSE t.right[n]

RedChild(t, n) == CASE t.left[n] \in t.red -> t.left[n]
                    [] t.left[n] \notin t.red /\ t.right[n] \in t.red -> t.right[n]
                    [] OTHER -> Nil

Blacken(t, n) == [t EXCEPT !.red = @ \ {n}]
Redden(t, n) == [t EXCEPT !.red = @ \cup {n}]

(* The child c of n's parent in place of n. *)
Replace(t, n, c) ==
  IF n = t.root THEN [t EXCEPT !.root = c]
  ELSE LET p == Parent(t, n) IN
       IF t.left[p] = n THEN [t EXCEPT !.left[p] = c] ELSE [t EXCEPT !.right[p] = c]

(* rotate: dir 1 raises the right child, -1 the left one. *)
Rotate(t, n, dir) ==
  IF t = Broken THEN Broken
  ELSE LET up == IF dir = 1 THEN t.right[n] ELSE t.left[n] IN
       IF up = Nil \/ (n = t.root /\ up \in t.red) THEN Broken
       ELSE LET over == Replace(t, n, up) IN
            IF dir = 1 THEN [over EXCEPT !.right[n] = t.left[up], !.left[up] = n]
            ELSE [over EXCEPT !.left[n] = t.right[up], !.right[up] = n]

-------------------------------------------------------------------------------
RECURSIVE FindFrom(_, _, _)
FindFrom(t, n, k) ==
  IF n = k THEN n
  ELSE LET next == IF n > k THEN t.right[n] ELSE t.left[n] IN
       IF next = Nil THEN n ELSE FindFrom(t, next, k)

(* find: the node of k, or else the one to hang it under. *)
Find(t, k) == IF t.root = Nil THEN Nil ELSE FindFrom(t, t.root, k)

(* Mutant: only one of the two inner grandchildren. *)
InnerOnTheRight(t, n) ==
  LET p == Parent(t, n) IN p = t.right[Parent(t, p)] /\ n = t.left[p]

(* n lies between its parent and its grandparent. *)
Inner(t, n) == LET p == Parent(t, n)
                   g == Parent(t, p)
               IN (p = t.right[g] /\ n = t.left[p]) \/ (p = t.left[g] /\ n = t.right[p])

RECURSIVE Fix(_, _)
Fix(t, n) ==
  IF n \notin t.red THEN t
  ELSE IF n = t.root THEN Blacken(t, n)
  ELSE LET p == Parent(t, n)
           g == Grandparent(t, n)
           u == Uncle(t, n)
       IN CASE p \notin t.red -> t
            [] p \in t.red /\ u \in t.red ->
                 Fix([t EXCEPT !.red = (@ \ {u, p}) \cup {g}], g)
            [] p \in t.red /\ u \notin t.red /\ g = Nil -> Broken
            [] OTHER ->
                 LET turned == IF Inner(t, n) THEN Rotate(t, p, IF n = t.left[p] THEN -1 ELSE 1) ELSE t
                     top == IF Inner(t, n) THEN n ELSE p
                     coloured == Redden(Blacken(turned, top), g)
                 IN IF turned = Broken THEN Broken
                    ELSE Rotate(coloured, g, IF top = coloured.left[g] THEN -1 ELSE 1)

(* put of a key: an old one only gets another value. *)
Insert(t, k) ==
  LET at == Find(t, k)
      red == Redden(t, k)
  IN IF at = k THEN t
     ELSE Fix(CASE t.root = Nil -> [red EXCEPT !.root = k]
                [] t.root # Nil /\ at > k -> [red EXCEPT !.right[at] = k]
                [] OTHER -> [red EXCEPT !.left[at] = k], k)

-------------------------------------------------------------------------------
RECURSIVE Leftmost(_, _), Rightmost(_, _)
Leftmost(t, n) == IF n = Nil \/ t.left[n] = Nil THEN n ELSE Leftmost(t, t.left[n])
Rightmost(t, n) == IF n = Nil \/ t.right[n] = Nil THEN n ELSE Rightmost(t, t.right[n])

(* fixBB: n is black and about to lose a black node. *)
RECURSIVE FixBB(_, _)
FixBB(t, n) ==
  IF t = Broken THEN Broken
  ELSE IF n = t.root THEN Blacken(t, n)
  ELSE LET p == Parent(t, n)
           s == Sibling(t, n)
           dir == IF t.left[p] = n THEN 1 ELSE -1
       IN CASE s = Nil -> Broken
            [] s \in t.red ->
                 IF p \in t.red THEN Broken
                 ELSE Rotate(Redden(Blacken(t, s), p), p, dir)
            [] s # Nil /\ s \notin t.red /\ Child(t, s) = Nil ->
                 LET turned == Rotate(t, p, dir) IN
                 IF p \in t.red \/ turned = Broken THEN turned
                 ELSE FixBB(Redden(turned, p), Grandparent(turned, n))
            [] s # Nil /\ s \notin t.red /\ RedChild(t, s) # Nil ->
                 LET near == CASE dir = 1 /\ t.left[s] \in t.red -> Rotate(t, s, -1)
                               [] dir = -1 /\ t.right[s] \in t.red -> Rotate(t, s, 1)
                               [] OTHER -> t
                     coloured == IF p \in t.red THEN near ELSE Blacken(near, Sibling(near, n))
                 IN IF near = Broken THEN Broken
                    ELSE LET turned == Rotate(coloured, p, dir) IN
                         IF turned = Broken THEN Broken ELSE Blacken(turned, p)
            [] OTHER -> IF p \in t.red THEN Blacken(Redden(t, s), p)
                        ELSE FixBB(Redden(t, s), p)

(* erase of a node with at most one child. *)
Unlink(t, n) ==
  IF t = Broken \/ (t.left[n] # Nil /\ t.right[n] # Nil) THEN Broken
  ELSE [Replace(t, n, Child(t, n)) EXCEPT !.left[n] = Nil, !.right[n] = Nil, !.red = @ \ {n}]

(* The node whose key and value take the place of k's, Nil where a pointer     *)
(* that remove does not test is null.                                          *)
Stand(t, k) ==
  LET right == Rightmost(t, t.right[k])
      left == Leftmost(t, t.left[k])
  IN CASE left = Nil /\ right = Nil -> k
       [] left # Nil /\ right = Nil -> left
       [] left = Nil /\ right # Nil -> Nil
       [] OTHER ->
            CASE left \in t.red \/ (right \notin t.red /\ RedChild(t, left) # Nil) -> left
              [] left \notin t.red /\ right \notin t.red /\ RedChild(t, left) = Nil
                   /\ RedChild(t, right) = Nil ->
                   IF Sibling(t, left) = Nil THEN Nil
                   ELSE IF RedChild(t, Sibling(t, left)) # Nil THEN left ELSE right
              [] OTHER -> right

(* Node k gets the key of a node that is gone. *)
Rename(t, k, new) ==
  IF t = Broken \/ k = new THEN t
  ELSE [Replace(t, k, new) EXCEPT !.left = [@ EXCEPT ![new] = t.left[k], ![k] = Nil],
                                  !.right = [@ EXCEPT ![new] = t.right[k], ![k] = Nil],
                                  !.red = (@ \ {k}) \cup (IF k \in t.red THEN {new} ELSE {})]

(* Mutant: a black node is erased without fixBB. *)
DeleteUnfixed(t, k) ==
  IF t.root = Nil \/ Find(t, k) # k THEN t
  ELSE LET n == Stand(t, k) IN
       IF n = Nil THEN Broken
       ELSE Rename(Unlink(IF RedChild(t, n) # Nil THEN Blacken(t, RedChild(t, n)) ELSE t, n), k, n)

(* remove of a key. *)
Delete(t, k) ==
  IF t.root = Nil \/ Find(t, k) # k THEN t
  ELSE LET n == Stand(t, k) IN
       IF n = Nil THEN Broken
       ELSE Rename(Unlink(CASE n \in t.red -> t
                            [] n \notin t.red /\ RedChild(t, n) # Nil -> Blacken(t, RedChild(t, n))
                            [] OTHER -> FixBB(t, n), n), k, n)

-------------------------------------------------------------------------------
(* The iterator keeps the path from the root to its node, << >> at the end.    *)
RECURSIVE Path(_, _, _)
Path(t, n, k) == IF n = k THEN << n >>
                 ELSE << n >> \o Path(t, IF n > k THEN t.right[n] ELSE t.left[n], k)

(* Mutant: the loop starts at the root.                                        *)
beginAtRoot(t) == IF t.root = Nil THEN << >> ELSE << t.root >>

begin(t) == IF t.root = Nil THEN << >> ELSE Path(t, t.root, Rightmost(t, t.root))

(* Up to the first node that is reached from its right, the end if none is.    *)
RECURSIVE Climb(_, _)
Climb(t, path) ==
  LET up == SubSeq(path, 1, Len(path) - 1) IN
  IF up = << >> \/ t.right[up[Len(up)]] = path[Len(path)] THEN up ELSE Climb(t, up)

(* operator++ *)
Advance(t, path) ==
  LET left == t.left[path[Len(path)]] IN
  IF left = Nil THEN Climb(t, path) ELSE path \o Path(t, left, Rightmost(t, left))

(* The nodes that the loops of morning and evening come by.                    *)
RECURSIVE Walk(_, _)
Walk(t, path) ==
  IF path = << >> THEN << >> ELSE << path[Len(path)] >> \o Walk(t, Advance(t, path))

(* topple: what the destructor leaves of the subtree at n.                     *)
RECURSIVE Topple(_, _)
Topple(t, n) ==
  CASE n = Nil \/ t = Broken -> t
    [] n # Nil /\ t # Broken /\ t.right[n] # Nil -> Topple(Topple(t, t.right[n]), n)
    [] n # Nil /\ t # Broken /\ t.right[n] = Nil /\ t.left[n] # Nil -> Topple(Topple(t, t.left[n]), n)
    [] OTHER -> Unlink(t, n)

(* add: a node for n and for all that hangs below it, the right child first.   *)
RECURSIVE add(_, _, _, _, _)
add(copy, t, n, parent, side) ==
  IF n = Nil THEN copy
  ELSE LET hung == CASE parent = Nil -> [copy EXCEPT !.root = n]
                     [] parent # Nil /\ side >= 0 -> [copy EXCEPT !.left[parent] = n]
                     [] OTHER -> [copy EXCEPT !.right[parent] = n]
           temp == IF n \in t.red THEN Redden(hung, n) ELSE hung
       IN add(add(temp, t, t.right[n], n, -1), t, t.left[n], n, 1)

(* The assignment of another tree, before which the old one is toppled.        *)
Assign(to, t) == add(Topple(to, to.root), t, t.root, Nil, 0)

-------------------------------------------------------------------------------
RECURSIVE Below(_, _)
Below(t, n) == IF n = Nil THEN {} ELSE {n} \cup Below(t, t.left[n]) \cup Below(t, t.right[n])

Held(t) == Below(t, t.root)

(* Every subtree lies on its side of its root: find finds what the tree holds. *)
Ordered(t) == \A n \in Held(t) : /\ \A m \in Below(t, t.left[n]) : m > n
                                 /\ \A m \in Below(t, t.right[n]) : m < n

RECURSIVE BlackHeight(_, _)
(* The number of black nodes on every path down from n, -1 if paths differ. *)
BlackHeight(t, n) ==
  IF n = Nil THEN 0
  ELSE LET l == BlackHeight(t, t.left[n])
           r == BlackHeight(t, t.right[n])
       IN IF l # r \/ l = -1 THEN -1 ELSE l + (IF n \in t.red THEN 0 ELSE 1)

Balanced(t) == /\ BlackHeight(t, t.root) # -1
               /\ t.root \notin t.red
               /\ \A n \in t.red : RedChild(t, n) = Nil

-------------------------------------------------------------------------------
Init == tree = Empty

(* The model ends with the process, and where a remove has left the tree out   *)
(* of order: from there on a key may be put twice, and would name two nodes.   *)
Followed == tree # Broken /\ Ordered(tree)

Put(k) == Followed /\ tree' = Insert(tree, k)

Remove(k) == Followed /\ tree' = Delete(tree, k)

Next == \E k \in Keys : Put(k) \/ Remove(k)

Spec == Init /\ [][Next]_vars

-------------------------------------------------------------------------------
(* put, on any search tree remove has left behind, faults nowhere, adds just   *)
(* its key and leaves a search tree, a red-black tree if it was one: rotate,   *)
(* fix and the four ways the parent, the uncle and the grandparent may lie.    *)
PutAdds(k) ==
  Put(k) => /\ tree' # Broken /\ Ordered(tree')
            /\ Held(tree') = Held(tree) \cup {k}
            /\ Balanced(tree) => Balanced(tree')

(* A remove that returns has taken out its key, where it was there, and no     *)
(* other, although it moves the key and value of another node and repairs the  *)
(* tree before it unlinks a node.  A red-black tree of at most three keys it   *)
(* leaves one.  With four keys it need not: findMin is given the subtree of    *)
(* the larger keys and goes to the largest, and the red sibling of fixBB is    *)
(* rotated without any further repair.                                         *)
RemoveDrops(k) ==
  Remove(k) /\ tree' # Broken =>
    /\ Held(tree') = Held(tree) \ {k}
    /\ Balanced(tree) /\ Cardinality(Held(tree)) <= 3 => Ordered(tree') /\ Balanced(tree')

(* Every player gets his morning and his evening: from any search tree that    *)
(* put and remove leave, of whatever balance, the iterator comes by each key   *)
(* once, in ascending order, and then ends, the destructor frees them all, and *)
(* what a tree is assigned is the whole of the other, whatever it held before. *)
WalkIsComplete ==
  Followed => /\ LET walk == Walk(tree, begin(tree)) IN
                 /\ {walk[i] : i \in DOMAIN walk} = Held(tree)
                 /\ \A i \in 2 .. Len(walk) : walk[i - 1] < walk[i]
              /\ Topple(tree, tree.root) = Empty
              /\ \A k \in {1, MaxKey} : Assign(Insert(Empty, k), tree) = tree
================================================================================
