------------------------------- MODULE LineLists -------------------------------
(* The linked lists of the two warehouses, node by node.  KutuzovOO's stand in *)
(* the buckets of its HashTable, Menshikh_DA's hold the cards of its recipes   *)
(* and are copied with them.  KutuzovWarehouse and MenshikhWarehouse take a    *)
(* list for the lines it holds; here the pointers must hold just these.        *)
EXTENDS Integers, SequencesExt, FiniteSetsExt, Functions

CONSTANTS List,      \* buckets and cards
          Bucket,    \* the buckets: 0 .. arrSize - 1
          Node, NoNode,
          Name,      \* a name is the sequence of its character codes
          Quants,    \* quantities that a call may give
          MaxQuant   \* bounds the sums

arrSize == Cardinality(Bucket)

(* hashFunc: a capital letter counts as the small one, and every character     *)
(* below them counts from a negative number on.                                *)
hashFunc(name) ==
  FoldLeft(LAMBDA hashVal, c : (hashVal * 32 + (IF c > 96 THEN c - 96 ELSE c - 64)) % arrSize, 0, name)

(* A name of letters has a bucket.  (C's remainder has the sign of its left    *)
(* operand: a name that starts with a digit may be given a negative one.)      *)
ListsAssumption ==
  /\ Bucket = 0 .. arrSize - 1 /\ arrSize > 0 /\ Bucket \subseteq List /\ NoNode \notin Node /\ IsFiniteSet(Node)
  /\ \A name \in Name : \A i \in DOMAIN name : name[i] \in 65 .. 90 \cup 97 .. 122
  /\ MaxQuant \in Nat /\ Quants \subseteq 0 .. MaxQuant

VARIABLES front,  \* of every list
          node,   \* what stands in the memory of a node
          live,   \* nodes made and not deleted
          held    \* ghost: the lines that every list should hold

vars == << front, node, live, held >>

(* Memory that is not a node's.                                                *)
Unused == [name |-> << >>, quant |-> 0, next |-> NoNode]

-------------------------------------------------------------------------------
(* A step of a walk, which has seen some nodes and stands at another.           *)
Step(w) ==
  IF w.at = NoNode THEN w ELSE [at |-> node[w.at].next, seen |-> Append(w.seen, w.at)]

(* The walk from front: the nodes in their order.  It would end after as many  *)
(* steps as there are nodes.                                                   *)
Chain(l) ==
  LET upTo[k \in 0 .. Cardinality(Node)] ==
        IF k = 0 THEN [at |-> front[l], seen |-> << >>] ELSE Step(upTo[k - 1])
  IN upTo[Cardinality(Node)].seen

(* get, printList: the lines as a walk meets them.                             *)
get(l) == [i \in DOMAIN Chain(l) |-> [name |-> node[Chain(l)[i]].name, quant |-> node[Chain(l)[i]].quant]]

(* Where a walk stops that looks for a name; 0 at the end.                     *)
At(l, name) == SelectInSeq(Chain(l), LAMBDA n : node[n].name = name)

search(l, name) == IF At(l, name) = 0 THEN 0 ELSE node[Chain(l)[At(l, name)]].quant

searchP(l, s) == IF search(l, s.name) < s.quant THEN s.quant - search(l, s.name) ELSE 0

(* The node at i of the chain is taken out: front is moved, or the node before *)
(* it, the one that looks ahead, is linked to the one behind it.               *)
Unlink(l, i) ==
  LET n == Chain(l)[i]
      linked == IF i = 1 THEN node ELSE [node EXCEPT ![Chain(l)[i - 1]].next = node[n].next]
  IN /\ front' = IF i = 1 THEN [front EXCEPT ![l] = node[n].next] ELSE front
     /\ node' = [linked EXCEPT ![n] = Unused] /\ live' = live \ {n}

(* What removepart finds and answers: 0, -1 (an exception in Menshikh_DA's),   *)
(* 2 and 1.                                                                    *)
Removal(l, s) ==
  LET i == At(l, s.name)
  IN IF i = 0 THEN "none"
     ELSE IF node[Chain(l)[i]].quant < s.quant THEN "too few"
     ELSE IF node[Chain(l)[i]].quant = s.quant THEN "unlinked" ELSE "less"

Lines == [name : Name, quant : Quants]

(* The lists as sequences of lines, the newest first (ghost).                  *)
LineAt(lines, name) == SelectInSeq(lines, LAMBDA s : s.name = name)
QuantIn(lines, name) == IF LineAt(lines, name) = 0 THEN 0 ELSE lines[LineAt(lines, name)].quant
Holds(l, lines) == held' = [held EXCEPT ![l] = lines]

-------------------------------------------------------------------------------
Init ==
  /\ front = [l \in List |-> NoNode] /\ node = [n \in Node |-> Unused] /\ live = {}
  /\ held = [l \in List |-> << >>]

(* A line goes into a card, or into the bucket of its name.                    *)
Goes(l, s) == l \in Bucket => l = hashFunc(s.name)

(* Mutant: the walk of insert looks at the next node and misses the last one.  *)
insertShort(l, s) ==
  LET i == At(l, s.name)
  IN IF i # 0 /\ i # Len(Chain(l))
     THEN node' = [node EXCEPT ![Chain(l)[i]].quant = @ + s.quant] /\ UNCHANGED << front, live >>
     ELSE \E n \in Node \ live :
            /\ live' = live \cup {n} /\ front' = [front EXCEPT ![l] = n]
            /\ node' = [node EXCEPT ![n] = [name |-> s.name, quant |-> s.quant, next |-> front[l]]]

insert(l, s) ==
  LET i == At(l, s.name)
  IN IF i # 0
     THEN node' = [node EXCEPT ![Chain(l)[i]].quant = @ + s.quant] /\ UNCHANGED << front, live >>
     ELSE \E n \in Node \ live :
            /\ live' = live \cup {n} /\ front' = [front EXCEPT ![l] = n]
            /\ node' = [node EXCEPT ![n] = [name |-> s.name, quant |-> s.quant, next |-> front[l]]]

Insert(l, s) ==
  LET i == LineAt(held[l], s.name)
  IN /\ Goes(l, s) /\ search(l, s.name) + s.quant <= MaxQuant
     /\ insert(l, s)
     /\ Holds(l, IF i = 0 THEN << s >> \o held[l] ELSE [held[l] EXCEPT ![i].quant = @ + s.quant])

removepart(l, s) ==
  CASE Removal(l, s) = "unlinked" -> Unlink(l, At(l, s.name))
    [] Removal(l, s) = "less" -> /\ node' = [node EXCEPT ![Chain(l)[At(l, s.name)]].quant = @ - s.quant]
                                 /\ UNCHANGED << front, live >>
    [] OTHER -> UNCHANGED << front, node, live >>

Removepart(l, s) ==
  LET i == LineAt(held[l], s.name)
  IN /\ Goes(l, s) /\ removepart(l, s)
     /\ Holds(l, IF i = 0 \/ held[l][i].quant < s.quant THEN held[l]
                 ELSE IF held[l][i].quant = s.quant THEN RemoveAt(held[l], i)
                 ELSE [held[l] EXCEPT ![i].quant = @ - s.quant])

(* Whatever the quantity.                                                      *)
RemoveLine(l, s) ==
  LET i == LineAt(held[l], s.name)
  IN /\ Goes(l, s)
     /\ IF At(l, s.name) # 0 THEN Unlink(l, At(l, s.name)) ELSE UNCHANGED << front, node, live >>
     /\ Holds(l, IF i # 0 THEN RemoveAt(held[l], i) ELSE held[l])

(* The memory after deleteList.                                                *)
deleteList(l) == [n \in Node |-> IF n \in Range(Chain(l)) THEN Unused ELSE node[n]]

Living(l) == live \ Range(Chain(l))

(* Of new nodes in the order of the lines, the one that m becomes.             *)
CopyOf(lines, copy, m) ==
  LET i == CHOOSE j \in DOMAIN lines : copy[j] = m
  IN [name |-> lines[i].name, quant |-> lines[i].quant,
      next |-> IF i = Len(lines) THEN NoNode ELSE copy[i + 1]]

(* deepCopy, after deleteList.                                                 *)
deepCopy(l, from) ==
  LET lines == get(from)
  IN \E copy \in [DOMAIN lines -> Node \ Living(l)] :
       /\ IsInjective(copy)
       /\ live' = Living(l) \cup Range(copy)
       /\ front' = [front EXCEPT ![l] = IF lines = << >> THEN NoNode ELSE copy[1]]
       /\ node' = [m \in Node |-> IF m \in Range(copy) THEN CopyOf(lines, copy, m) ELSE deleteList(l)[m]]

(* operator=; a list is not copied into itself.                                *)
Assign(l, from) ==
  /\ l \notin Bucket /\ Holds(l, held[from])
  /\ IF l = from THEN UNCHANGED << front, node, live >> ELSE deepCopy(l, from)

Destroy(l) ==
  /\ l \notin Bucket /\ live' = Living(l) /\ front' = [front EXCEPT ![l] = NoNode]
  /\ node' = deleteList(l) /\ Holds(l, << >>)

Next ==
  \E l \in List :
    \/ \E s \in Lines : Insert(l, s) \/ Removepart(l, s) \/ RemoveLine(l, s)
    \/ Destroy(l)
    \/ \E from \in List : Assign(l, from)

Spec == Init /\ [][Next]_vars

-------------------------------------------------------------------------------
(* Every list holds the lines it should, in their order, and answers what they *)
(* say; no node is in two lists, none that was deleted can be reached, and     *)
(* none that is alive is lost.                                                 *)
LinesHeld ==
  /\ \A l \in List : /\ get(l) = held[l]
                     /\ \A s \in Lines : LET q == QuantIn(held[l], s.name)
                                         IN search(l, s.name) = q /\ searchP(l, s) = IF q < s.quant THEN s.quant - q ELSE 0
  /\ \A l, k \in List : l # k => Range(Chain(l)) \cap Range(Chain(k)) = {}
  /\ live = UNION {Range(Chain(l)) : l \in List}
================================================================================
